---- MODULE Spec2Model ----
(***************************************************************************)
(* odmr_sim: the rate-equation model builder (odmr_sim/models/base.py) and *)
(* the linear solver (odmr_sim/solvers/rate_solver.py).                    *)
(*                                                                         *)
(* Numbers.  Python floats are modelled by exact integers and rationals.   *)
(* Rates, coefficients and parameter values are whole numbers of MHz; a    *)
(* matrix is a function W[to][from] over 0..n-1, as W[to, from] in numpy.  *)
(***************************************************************************)
EXTENDS Integers, Sequences, FiniteSets, TLC

VARIABLES
    constructed,          \* a RateModel object exists
    n_states,             \* self.n_states
    state_labels,         \* self.state_labels
    rates,                \* self._rates: (from, to) -> rate
    dynamic_rate_specs,   \* self._dynamic_rate_specs: name -> list of (from, to, coefficient)
    attributes,           \* the object's class and the attributes its subclass adds
    PRESETS,              \* the module-level table PRESETS of models/presets.py
    models,               \* the SevenLevelModel objects get_preset has returned
    dicts,                \* the dict objects their _rates attributes refer to
    threads,              \* the calls in flight on the model, one per thread
    call,                 \* the latest call: its name and arguments
    raised,               \* the latest call raised
    ret                   \* the value the latest call returned

vars ==
    <<constructed, n_states, state_labels, rates, dynamic_rate_specs, attributes,
      PRESETS, models, dicts, threads, call, raised, ret>>

tables == <<rates, dynamic_rate_specs>>

----------------------------------------------------------------------------
(* Bounds and input sets                                                   *)

\* most dynamic registrations a model holds
MaxDyn == 2
\* longest label sequence handed to the constructor
MaxLabels == 3
\* most entries of a mapping handed to set_rates
MaxMapping == 2

\* base.py:48, the smallest state count the constructor admits
MinStates == 2
\* base.py:168, MHz -> 1/s
Scale == 1000000

\* Optional[...] arguments: None, or a value
NoneVal == <<>>
Some(x) == <<x>>
\* a ValueError with its message
ValueError(message) == Some([type |-> "ValueError", message |-> message])

\* state counts handed to the constructor
NStatesInputs == 0 .. MinStates
\* label sequences handed to the constructor
LabelInputs == {NoneVal} \cup {Some([i \in 1 .. k |-> "L"]) : k \in 0 .. MaxLabels}
\* state indices handed to the setters: one below, the valid ones, one above
IndexInputs == -1 .. MinStates
\* rate values handed to set_rate (MHz)
RateInputs == {-1, 2}
\* (param_name, coefficient) handed to add_dynamic_rate; 1 is the default coefficient
DynInputs == {<<"gamma", 1>>, <<"kmw", 2>>}
\* (from_state, to_state) handed to add_dynamic_rate: a valid pair, a self pair, a pair
\* with from_state below the range and a pair with to_state above it
DynPairInputs == {<<0, 1>>, <<0, 0>>, <<-1, 1>>, <<1, MinStates>>}
\* keyword arguments handed to build_rate_matrix
KwargsInputs ==
    { <<>>,
      [n \in {"gamma"} |-> 3],
      [n \in {"gamma", "kmw"} |-> IF n = "gamma" THEN 3 ELSE -1],
      [n \in {"gamma", "other"} |-> IF n = "gamma" THEN -1 ELSE 7] }
\* keys of the mappings handed to set_rates: the two valid pairs and a self pair
MapKeys == {<<0, 1>>, <<1, 0>>, <<1, 1>>}
\* mappings handed to set_rates, in dict order: distinct keys, entry i has rate MapRate(i)
MappingInputs ==
    { m \in UNION {[1 .. k -> MapKeys] : k \in 0 .. MaxMapping} :
        \A i, j \in DOMAIN m : i # j => m[i] # m[j] }
MapRate(i) == IF i % 2 = 1 THEN 2 ELSE -1

----------------------------------------------------------------------------
(* Strings whose characters the code looks at are sequences of characters. *)

UpperCase == <<"A", "B", "C", "D", "E", "F", "G", "H", "I", "J", "K", "L", "M", "N", "O", "P", "Q", "R", "S", "T", "U", "V", "W", "X", "Y", "Z">>
LowerCase == <<"a", "b", "c", "d", "e", "f", "g", "h", "i", "j", "k", "l", "m", "n", "o", "p", "q", "r", "s", "t", "u", "v", "w", "x", "y", "z">>

\* str.lower() of one ASCII character
lower_char(c) ==
    IF \E i \in DOMAIN UpperCase : UpperCase[i] = c
    THEN LowerCase[CHOOSE i \in DOMAIN UpperCase : UpperCase[i] = c]
    ELSE c

\* str.lower()
lower(str) == [i \in DOMAIN str |-> lower_char(str[i])]

\* str.replace(old, new) for one-character old and new
replace(str, old, new) == [i \in DOMAIN str |-> IF str[i] = old THEN new ELSE str[i]]

----------------------------------------------------------------------------
(* The preset table of models/presets.py.  A name is a sequence of          *)
(* characters, so that lower() and replace() act on it; a preset rate is a  *)
(* whole number of thousandths of MHz (62.5 MHz is 62500).                  *)

\* the "references" entry every preset carries
PresetReferences ==
    << "L. Robledo et al., New J. Phys. 13, 025013 (2011)",
       "S. Ahmadi et al., Phys. Rev. Applied 8, 034001 (2017)",
       "Y. Masuyama et al., Sci. Rep. 14, 18135 (2024)" >>

\* one entry of PRESETS
PresetConfig(description, k41, k52, k63, k47, k57, k67, k71, k72, k73, degenerate) ==
    [description |-> description,
     k41 |-> k41, k52 |-> k52, k63 |-> k63,
     k47 |-> k47, k57 |-> k57, k67 |-> k67,
     k71 |-> k71, k72 |-> k72, k73 |-> k73,
     use_degenerate_labels |-> degenerate,
     references |-> PresetReferences]

\* the key "nv_bulk"
KEY_NV_BULK == <<"n", "v", "_", "b", "u", "l", "k">>

\* the key "g9_g8_30dp"
KEY_G9_G8_30DP == <<"g", "9", "_", "g", "8", "_", "3", "0", "d", "p">>

\* the key "g4_g9_90dp"
KEY_G4_G9_90DP == <<"g", "4", "_", "g", "9", "_", "9", "0", "d", "p">>

\* the key "gp7_gp3_30dp"
KEY_GP7_GP3_30DP == <<"g", "p", "7", "_", "g", "p", "3", "_", "3", "0", "d", "p">>

\* the key "g11_gm9_30dp"
KEY_G11_GM9_30DP == <<"g", "1", "1", "_", "g", "m", "9", "_", "3", "0", "d", "p">>

\* PRESETS as the module defines it
PresetTable ==
    (KEY_NV_BULK :> PresetConfig("NV center in bulk diamond",
             62500, 62500, 62500, 10500, 76900, 76900, 3000, 2630, 2630, TRUE))
      @@ (KEY_G9_G8_30DP :> PresetConfig("NV center G9-G8 configuration at 30 degrees",
             62500, 62500, 62500, 7, 500, 150, 279100, 300, 21300, FALSE))
      @@ (KEY_G4_G9_90DP :> PresetConfig("NV center G4-G9 configuration at 90 degrees",
             62500, 62500, 62500, 31200, 1700, 12300, 126000, 3300, 1, FALSE))
      @@ (KEY_GP7_GP3_30DP :> PresetConfig("NV center G+7-G+3 configuration at 30 degrees",
             62500, 62500, 62500, 7100, 9400, 69100, 717000, 188000, 23300, FALSE))
      @@ (KEY_G11_GM9_30DP :> PresetConfig("NV center G11-G-9 configuration at 30 degrees",
             62500, 62500, 62500, 4400, 5, 44100, 2336000, 3100, 1, FALSE))

----------------------------------------------------------------------------
(* Matrices                                                                *)

\* f as an explicit table: TLC would otherwise re-evaluate a function constructor on
\* every application
Eager(f) == f @@ <<>>

RECURSIVE SumTo(_, _)
\* f[0] + ... + f[n-1]
SumTo(f, n) == IF n = 0 THEN 0 ELSE f[n - 1] + SumTo(f, n - 1)

\* np.zeros((n, n))
zeros(n) == Eager([i \in 0 .. n - 1 |-> Eager([j \in 0 .. n - 1 |-> 0])])

\* np.sum(W[:, i])
ColSum(W, n, i) == SumTo([j \in 0 .. n - 1 |-> W[j][i]], n)

\* W * c
MatScale(W, n, c) ==
    Eager([i \in 0 .. n - 1 |-> Eager([j \in 0 .. n - 1 |-> W[i][j] * c])])

----------------------------------------------------------------------------
(* RateModel                                                               *)

\* [f"State {i}" for i in range(n_states)]
DefaultLabels(n) == [i \in 1 .. n |-> <<"State", i - 1>>]

\* `state_labels or [...]`: None and the empty list are both falsy
LabelsOrDefault(labels, n) ==
    IF labels # NoneVal /\ labels[1] # <<>> THEN labels[1] ELSE DefaultLabels(n)

\* the attributes of an object of class RateModel itself: it has none beyond the tables
RateModelAttributes == [class |-> "RateModel"]

\* RateModel.__init__
RateModelInit(n, labels) ==
    /\ ~constructed
    /\ call' = [op |-> "__init__", n |-> n, labels |-> labels]
    /\ ret' = NoneVal
    /\ IF n < MinStates
       THEN /\ raised' = TRUE
            /\ UNCHANGED <<PRESETS, models, dicts, threads, attributes, constructed, n_states, state_labels, rates, dynamic_rate_specs>>
       ELSE IF Len(LabelsOrDefault(labels, n)) # n
       THEN /\ raised' = TRUE
            /\ UNCHANGED <<PRESETS, models, dicts, threads, attributes, constructed, n_states, state_labels, rates, dynamic_rate_specs>>
       ELSE /\ raised' = FALSE
            /\ constructed' = TRUE
            /\ n_states' = n
            /\ state_labels' = LabelsOrDefault(labels, n)
            /\ rates' = <<>>
            /\ dynamic_rate_specs' = <<>>
            /\ UNCHANGED <<PRESETS, models, dicts, threads, attributes>>

\* mutant of _validate_state_index: the upper comparison written <= instead of <
validate_state_index_inclusive(index) == 0 <= index /\ index <= n_states

\* _validate_state_index: TRUE when the index passes
validate_state_index(index) == 0 <= index /\ index < n_states

\* set_rate's checks: TRUE when the call raises
set_rate_raises(from_state, to_state) ==
    \/ ~validate_state_index(from_state)
    \/ ~validate_state_index(to_state)
    \/ from_state = to_state

\* d[key] = value
DictPut(d, key, value) ==
    [k \in DOMAIN d \cup {key} |-> IF k = key THEN value ELSE d[k]]

\* mutant of the store: += written for =
store_rate_accumulate(r, key, rate) ==
    DictPut(r, key, (IF key \in DOMAIN r THEN r[key] ELSE 0) + rate)

\* self._rates[(from_state, to_state)] = rate
store_rate(r, key, rate) == DictPut(r, key, rate)

\* the rate the table holds for a key before a store: None when it holds none
held_rate(r, key) == IF key \in DOMAIN r THEN Some(r[key]) ELSE NoneVal

\* RateModel.set_rate; replaced records the rate the pair held before the call
set_rate(from_state, to_state, rate) ==
    /\ constructed
    /\ ret' = NoneVal
    /\ IF set_rate_raises(from_state, to_state)
       THEN /\ raised' = TRUE
            /\ call' = [op |-> "set_rate", from_state |-> from_state, to_state |-> to_state,
                        rate |-> rate, replaced |-> NoneVal]
            /\ UNCHANGED <<rates, dynamic_rate_specs>>
       ELSE /\ raised' = FALSE
            /\ call' = [op |-> "set_rate", from_state |-> from_state, to_state |-> to_state,
                        rate |-> rate,
                        replaced |-> held_rate(rates, <<from_state, to_state>>)]
            /\ rates' = store_rate(rates, <<from_state, to_state>>, rate)
            /\ UNCHANGED dynamic_rate_specs
    /\ UNCHANGED <<PRESETS, models, dicts, threads, attributes, constructed, n_states, state_labels>>

RECURSIVE set_rates_loop_skip(_, _, _)
\* mutant of the loop of set_rates: an invalid entry is passed over and the loop goes on
set_rates_loop_skip(r, mapping, i) ==
    IF i > Len(mapping) THEN [rates |-> r, raised |-> FALSE]
    ELSE IF set_rate_raises(mapping[i][1], mapping[i][2])
    THEN [rates |-> set_rates_loop_skip(r, mapping, i + 1).rates, raised |-> TRUE]
    ELSE set_rates_loop_skip(store_rate(r, mapping[i], MapRate(i)), mapping, i + 1)

RECURSIVE set_rates_loop(_, _, _)
\* the loop of set_rates from entry i on: the table it leaves and whether it raised
set_rates_loop(r, mapping, i) ==
    IF i > Len(mapping) THEN [rates |-> r, raised |-> FALSE]
    ELSE IF set_rate_raises(mapping[i][1], mapping[i][2]) THEN [rates |-> r, raised |-> TRUE]
    ELSE set_rates_loop(store_rate(r, mapping[i], MapRate(i)), mapping, i + 1)

\* RateModel.set_rates
set_rates(mapping) ==
    /\ constructed
    /\ call' = [op |-> "set_rates", mapping |-> mapping]
    /\ ret' = NoneVal
    /\ rates' = set_rates_loop(rates, mapping, 1).rates
    /\ raised' = set_rates_loop(rates, mapping, 1).raised
    /\ UNCHANGED <<PRESETS, models, dicts, threads, attributes, constructed, n_states, state_labels, dynamic_rate_specs>>

\* the number of registrations held
RECURSIVE DynCount(_, _)
DynCount(d, names) ==
    IF names = {} THEN 0
    ELSE LET p == CHOOSE x \in names : TRUE
         IN  Len(d[p]) + DynCount(d, names \ {p})

\* mutant of add_dynamic_rate's checks: only the lower end of the range is checked
add_dynamic_rate_raises_lower_only(from_state, to_state) == from_state < 0 \/ to_state < 0

\* add_dynamic_rate's checks: TRUE when the call raises
add_dynamic_rate_raises(from_state, to_state) ==
    \/ ~validate_state_index(from_state)
    \/ ~validate_state_index(to_state)

\* RateModel.add_dynamic_rate
add_dynamic_rate(param_name, from_state, to_state, coefficient) ==
    /\ constructed
    /\ DynCount(dynamic_rate_specs, DOMAIN dynamic_rate_specs) < MaxDyn
    /\ call' = [op |-> "add_dynamic_rate", from_state |-> from_state, to_state |-> to_state]
    /\ ret' = NoneVal
    /\ IF add_dynamic_rate_raises(from_state, to_state)
       THEN /\ raised' = TRUE
            /\ UNCHANGED <<rates, dynamic_rate_specs>>
       ELSE /\ raised' = FALSE
            /\ dynamic_rate_specs' =
                 DictPut(dynamic_rate_specs, param_name,
                         Append(IF param_name \in DOMAIN dynamic_rate_specs
                                THEN dynamic_rate_specs[param_name] ELSE <<>>,
                                <<from_state, to_state, coefficient>>))
            /\ UNCHANGED rates
    /\ UNCHANGED <<PRESETS, models, dicts, threads, attributes, constructed, n_states, state_labels>>

\* numpy indexing of an axis of length n: an index outside [-n, n) raises IndexError
index_error(i, n) == i < -n \/ i >= n

\* numpy indexing of an axis of length n: a negative index counts from the end
wrap_index(i, n) == IF i < 0 THEN i + n ELSE i

\* numpy indexing of an axis of W
np_index(W, i) == wrap_index(i, Cardinality(DOMAIN W))

RECURSIVE add_fixed_rates(_, _, _)
\* for (from_state, to_state), rate in self._rates.items(): W[to_state, from_state] += rate
add_fixed_rates(W, r, keys) ==
    IF keys = {} THEN W
    ELSE LET k == CHOOSE x \in keys : TRUE
         IN  add_fixed_rates([W EXCEPT ![np_index(W, k[2])][np_index(W, k[1])] = @ + r[k]],
                             r, keys \ {k})

\* mutant of the dynamic contribution: = written for +=
add_transition_overwrite(W, t, param_value) ==
    [W EXCEPT ![np_index(W, t[2])][np_index(W, t[1])] = param_value * t[3]]

\* W[to_state, from_state] += param_value * coefficient
add_transition(W, t, param_value) ==
    [W EXCEPT ![np_index(W, t[2])][np_index(W, t[1])] = @ + param_value * t[3]]

RECURSIVE add_transitions(_, _, _)
\* for from_state, to_state, coefficient in transitions: ...
add_transitions(W, transitions, param_value) ==
    IF transitions = <<>> THEN W
    ELSE add_transitions(add_transition(W, Head(transitions), param_value),
                         Tail(transitions), param_value)

\* kwargs.get(param_name, 0.0)
kwargs_get(kwargs, param_name) ==
    IF param_name \in DOMAIN kwargs THEN kwargs[param_name] ELSE 0

RECURSIVE add_dynamic_rates(_, _, _, _)
\* for param_name, transitions in self._dynamic_rate_specs.items(): ...
add_dynamic_rates(W, d, names, kwargs) ==
    IF names = {} THEN W
    ELSE LET p == CHOOSE x \in names : TRUE
         IN  add_dynamic_rates(add_transitions(W, d[p], kwargs_get(kwargs, p)),
                               d, names \ {p}, kwargs)

\* mutant of the diagonal: the entry already on the diagonal is not taken back out
diagonal_entry_keeps_own(W, n, i) == -ColSum(W, n, i)

\* W[i, i] = -np.sum(W[:, i]) + W[i, i]
diagonal_entry(W, n, i) == -ColSum(W, n, i) + W[i][i]

RECURSIVE set_diagonal(_, _, _)
\* for i in range(self.n_states): W[i, i] = ...
set_diagonal(W, n, i) ==
    IF i >= n THEN W
    ELSE set_diagonal([W EXCEPT ![i][i] = diagonal_entry(W, n, i)], n, i + 1)

\* mutant of the start matrix: the working matrix of the previous build is kept and reused
stale_matrix(n) ==
    IF call.op = "build_rate_matrix"
    THEN [i \in 0 .. n - 1 |-> [j \in 0 .. n - 1 |-> ret[i][j] \div Scale]]
    ELSE zeros(n)

\* the matrix build_rate_matrix starts from
fresh_matrix(n) == zeros(n)

\* RateModel.build_rate_matrix, as a function of the tables and the keyword arguments
build_rate_matrix(n, r, d, kwargs) ==
    MatScale(
        set_diagonal(
            add_dynamic_rates(add_fixed_rates(fresh_matrix(n), r, DOMAIN r),
                              d, DOMAIN d, kwargs),
            n, 0),
        n, Scale)

\* build_rate_matrix has no check of its own: it raises when, and only when, an index
\* held in a table is one that numpy indexing of W refuses
build_raises(n, r, d) ==
    \/ \E k \in DOMAIN r : index_error(k[2], n) \/ index_error(k[1], n)
    \/ \E p \in DOMAIN d : \E j \in DOMAIN d[p] :
          index_error(d[p][j][2], n) \/ index_error(d[p][j][1], n)

\* a call of build_rate_matrix(**kwargs); after_build records that it follows another build
build(kwargs) ==
    /\ constructed
    /\ call' = [op |-> "build_rate_matrix", kwargs |-> kwargs, after_build |-> (call.op = "build_rate_matrix")]
    /\ raised' = build_raises(n_states, rates, dynamic_rate_specs)
    /\ ret' = IF build_raises(n_states, rates, dynamic_rate_specs) THEN NoneVal
              ELSE build_rate_matrix(n_states, rates, dynamic_rate_specs, kwargs)
    /\ UNCHANGED <<PRESETS, models, dicts, threads, attributes, constructed, n_states, state_labels, rates, dynamic_rate_specs>>

----------------------------------------------------------------------------
(* The model builder: construction, then any sequence of setter and build  *)
(* calls.                                                                  *)

Init ==
    /\ constructed = FALSE
    /\ n_states = 0
    /\ state_labels = <<>>
    /\ rates = <<>>
    /\ dynamic_rate_specs = <<>>
    /\ attributes = RateModelAttributes
    /\ PRESETS = PresetTable
    /\ models = <<>>
    /\ dicts = <<>>
    /\ threads = <<>>
    /\ call = [op |-> "none"]
    /\ raised = FALSE
    /\ ret = NoneVal

Construct == \E n \in NStatesInputs, labels \in LabelInputs : RateModelInit(n, labels)

SetRate == \E f \in IndexInputs, t \in IndexInputs, r \in RateInputs : set_rate(f, t, r)

SetRates == \E m \in MappingInputs : set_rates(m)

AddDynamicRate ==
    \E pc \in DynInputs, ft \in DynPairInputs :
        add_dynamic_rate(pc[1], ft[1], ft[2], pc[2])

BuildRateMatrix == \E kwargs \in KwargsInputs : build(kwargs)

Next ==
    \/ Construct
    \/ SetRate
    \/ SetRates
    \/ AddDynamicRate
    \/ BuildRateMatrix

Spec == Init /\ [][Next]_vars

----------------------------------------------------------------------------
(* RateSolver.  A population vector is a rational vector [num, den] in     *)
(* lowest terms with den > 0; den = 0 stands for a vector of nan.  Times   *)
(* are whole microseconds: t = t_us / Scale seconds.                       *)

\* terms of the exponential series kept by Expm
ExpmOrder == 3
\* population inputs are multiples of 1 / PopDen
PopDen == 2
\* the latest time point handed to solve_expm, in microseconds
MaxTime == 2
\* most time points handed to solve_expm
MaxTimes == 2

Abs(x) == IF x < 0 THEN -x ELSE x

RECURSIVE Gcd(_, _)
Gcd(a, b) == IF b = 0 THEN Abs(a) ELSE Gcd(b, a % Abs(b))

RECURSIVE GcdTo(_, _)
\* gcd(f[0], ..., f[n-1])
GcdTo(f, n) == IF n = 0 THEN 0 ELSE Gcd(f[n - 1], GcdTo(f, n - 1))

\* num / den with the common factor g taken out
Reduced(num, den, n, g) ==
    [num |-> Eager([i \in 0 .. n - 1 |-> num[i] \div g]), den |-> den \div g]

\* the rational vector num / den in lowest terms, den > 0
Canon(num, den, n) ==
    IF den = 0 THEN [num |-> Eager([i \in 0 .. n - 1 |-> 0]), den |-> 0]
    ELSE Reduced(num, den, n, (IF den < 0 THEN -1 ELSE 1) * Gcd(den, GcdTo(num, n)))

\* M @ v
matvec(M, v, n) ==
    Eager([i \in 0 .. n - 1 |-> SumTo([j \in 0 .. n - 1 |-> M[i][j] * v[j]], n)])

\* mutant of M @ v: v @ M
vecmat(M, v, n) ==
    Eager([i \in 0 .. n - 1 |-> SumTo([j \in 0 .. n - 1 |-> M[j][i] * v[j]], n)])

\* A + B
MatAdd(A, B, n) ==
    Eager([i \in 0 .. n - 1 |-> Eager([j \in 0 .. n - 1 |-> A[i][j] + B[i][j]])])

\* A / k for entries that are multiples of k
MatDiv(A, n, k) ==
    Eager([i \in 0 .. n - 1 |-> Eager([j \in 0 .. n - 1 |-> A[i][j] \div k])])

\* np.eye(n)
Identity(n) ==
    Eager([i \in 0 .. n - 1 |-> Eager([j \in 0 .. n - 1 |-> IF i = j THEN 1 ELSE 0])])

\* A @ B
matmul(A, B, n) ==
    Eager([i \in 0 .. n - 1 |-> Eager([j \in 0 .. n - 1 |->
        SumTo([k \in 0 .. n - 1 |-> A[i][k] * B[k][j]], n)])])

\* W * t for t = t_us microseconds
times_scalar(W, t_us, n) ==
    Eager([i \in 0 .. n - 1 |-> Eager([j \in 0 .. n - 1 |-> (W[i][j] * t_us) \div Scale])])

RECURSIVE Factorial(_)
Factorial(k) == IF k = 0 THEN 1 ELSE k * Factorial(k - 1)

RECURSIVE ExpmTerm(_, _, _)
\* ExpmOrder! * A^k / k!
ExpmTerm(A, n, k) ==
    IF k = 0
    THEN MatScale(Identity(n), n, Factorial(ExpmOrder))
    ELSE MatDiv(matmul(ExpmTerm(A, n, k - 1), A, n), n, k)

RECURSIVE ExpmSum(_, _, _)
ExpmSum(A, n, k) ==
    IF k = 0 THEN ExpmTerm(A, n, 0)
    ELSE MatAdd(ExpmSum(A, n, k - 1), ExpmTerm(A, n, k), n)

\* scipy.linalg.expm(A), by its power series I + A + A^2/2! + ... up to ExpmOrder,
\* in exact arithmetic: the numerators over the denominator Factorial(ExpmOrder)
expm(A, n) == ExpmSum(A, n, ExpmOrder)

\* the product expm(...) @ P0 of solve_expm
propagate(E, v, n) == matvec(E, v, n)

\* expm(W * t) @ P0
expm_row(W, P0, t_us, n) ==
    Canon(propagate(expm(times_scalar(W, t_us, n), n), P0.num, n),
          Factorial(ExpmOrder) * P0.den, n)

RECURSIVE cumulative_row(_, _, _, _, _)
\* row i reached by stepping from row i - 1 over t_eval[i]
cumulative_row(W, P0, t_eval, i, n) ==
    IF i = 0 THEN P0
    ELSE expm_row(W, cumulative_row(W, P0, t_eval, i - 1, n), t_eval[i], n)

\* mutant of the loop of solve_expm: each row starts from the row before it, not from P0
solve_expm_cumulative(W, P0, t_eval, n) ==
    [i \in 1 .. Len(t_eval) |-> cumulative_row(W, P0, t_eval, i, n)]

\* mutant of the loop of solve_expm: the time index is off by one, wrapping
solve_expm_shifted(W, P0, t_eval, n) ==
    [i \in 1 .. Len(t_eval) |-> expm_row(W, P0, t_eval[(i % Len(t_eval)) + 1], n)]

\* RateSolver.solve_expm: for i, t in enumerate(t_eval): populations[i] = expm(W * t) @ P0
solve_expm(W, P0, t_eval, n) ==
    [i \in 1 .. Len(t_eval) |-> expm_row(W, P0, t_eval[i], n)]

\* W with the common factor of its entries taken out
Primitive(W, n) ==
    IF W = zeros(n) THEN W
    ELSE MatDiv(W, n, GcdTo(Eager([i \in 0 .. n - 1 |-> GcdTo(W[i], n)]), n))

\* M without row r and column c
Minor(M, m, r, c) ==
    Eager([i \in 0 .. m - 2 |-> Eager([j \in 0 .. m - 2 |->
        M[IF i < r THEN i ELSE i + 1][IF j < c THEN j ELSE j + 1]])])

RECURSIVE Det(_, _)
Det(M, m) ==
    IF m = 0 THEN 1
    ELSE SumTo([j \in 0 .. m - 1 |->
                   IF M[0][j] = 0 THEN 0
                   ELSE (IF j % 2 = 0 THEN 1 ELSE -1) * M[0][j] * Det(Minor(M, m, 0, j), m - 1)],
               m)

\* column c of the adjugate of M: M @ AdjColumn(M, n, c) = det(M) * e_c
AdjColumn(M, n, c) ==
    Eager([i \in 0 .. n - 1 |->
        (IF (i + c) % 2 = 0 THEN 1 ELSE -1) * Det(Minor(M, n, c, i), n - 1)])

\* the columns of the adjugate that are not zero
NullColumns(W, n) ==
    { c \in 0 .. n - 1 : \E i \in 0 .. n - 1 : AdjColumn(Primitive(W, n), n, c)[i] # 0 }

\* the zero eigenvalue of W is simple in the geometric sense: its eigenvectors
\* are the multiples of one vector
HasSimpleNullSpace(W, n) == Det(Primitive(W, n), n) = 0 /\ NullColumns(W, n) # {}

\* an integer vector with the common factor of its entries taken out
LowestTerms(a, n) == Reduced(a, 1, n, GcdTo(a, n)).num

\* np.real(eigenvectors[:, np.argmin(np.abs(eigenvalues))]) for a W with eigenvalue 0
\* and a simple null space: the null vector of W in lowest terms, up to the factor
\* (sign and length) that np.linalg.eig is free to choose
null_vector(W, n) ==
    LowestTerms(AdjColumn(Primitive(W, n), n, CHOOSE x \in NullColumns(W, n) : TRUE), n)

\* factors np.linalg.eig may put on the eigenvector
EigFactors == {-2, -1, 1, 2}

\* mutant of the division: the vector is divided by the absolute value of its sum
divide_by_abs_sum(P, n) ==
    IF P.den = 0 THEN P
    ELSE Canon(P.num, Abs(SumTo(P.num, n)), n)

\* P / np.sum(P) for a rational vector P; a zero sum gives nan
divide_by_sum(P, n) ==
    IF P.den = 0 THEN P
    ELSE Canon(P.num, SumTo(P.num, n), n)

\* np.maximum(P, 0)
clip_negative(P, n) ==
    [num |-> Eager([i \in 0 .. n - 1 |-> IF P.num[i] < 0 THEN 0 ELSE P.num[i]]),
     den |-> P.den]

\* mutant of the post-processing: the negative entries are clipped before the first division
normalize_clip_first(v, n) ==
    divide_by_sum(clip_negative([num |-> v, den |-> 1], n), n)

\* P_ss / sum, np.maximum(P_ss, 0), P_ss / sum
normalize_steady_state(v, n) ==
    divide_by_sum(clip_negative(divide_by_sum([num |-> v, den |-> 1], n), n), n)

\* the eigenvector as np.linalg.eig returns it: factor * v
scaled_vector(v, factor, n) == Eager([i \in 0 .. n - 1 |-> factor * v[i]])

\* RateSolver.solve_steady_state for the eigenvector factor * null_vector(W)
solve_steady_state(W, factor, n) ==
    normalize_steady_state(scaled_vector(null_vector(W, n), factor, n), n)

----------------------------------------------------------------------------
(* The solver applied to generators built from bounded rate tables: each    *)
(* behaviour draws a model and applies one solver call to its generator.   *)

\* the ordered pairs of distinct states
Pairs(n) == {<<f, t>> \in (0 .. n - 1) \X (0 .. n - 1) : f # t}

\* every rate table over the pairs P with rates in R
RateTables(P, R) == UNION {[D -> R] : D \in SUBSET P}

\* the models the solver is applied to: two states with a range of rates, a negative
\* one included, and three states with rates around the cycle 0 -> 1 -> 2 -> 0
SolverModels ==
    {[n |-> 2, rates |-> r] : r \in RateTables(Pairs(2), {-1, 1, 2, 5, 10})}
      \cup {[n |-> 3, rates |-> r] : r \in RateTables({<<0, 1>>, <<1, 2>>, <<2, 0>>}, {1, 2})}

\* population vectors handed to the solver: the multiples of 1 / PopDen that sum to 1,
\* and one vector that does not sum to 1
PopulationInputs(n) ==
    {Canon(v, PopDen, n) : v \in {u \in [0 .. n - 1 -> 0 .. PopDen] : SumTo(u, n) = PopDen}}
      \cup {Canon([i \in 0 .. n - 1 |-> i + 1], 1, n)}

\* time grids handed to solve_expm, in microseconds
TimeInputs == UNION {[1 .. k -> 0 .. MaxTime] : k \in 0 .. MaxTimes}

SolverInit ==
    /\ constructed = TRUE
    /\ \E m \in SolverModels :
          /\ n_states = m.n
          /\ state_labels = DefaultLabels(m.n)
          /\ rates = m.rates
    /\ dynamic_rate_specs = <<>>
    /\ attributes = RateModelAttributes
    /\ PRESETS = PresetTable
    /\ models = <<>>
    /\ dicts = <<>>
    /\ threads = <<>>
    /\ call = [op |-> "none"]
    /\ raised = FALSE
    /\ ret = NoneVal

\* W = model.build_rate_matrix()
BuiltGenerator == build_rate_matrix(n_states, rates, dynamic_rate_specs, <<>>)

SolveExpm ==
    \E P0 \in PopulationInputs(n_states), t_eval \in TimeInputs :
        /\ call.op = "none"
        /\ call' = [op |-> "solve_expm", W |-> BuiltGenerator, P0 |-> P0, t_eval |-> t_eval]
        /\ raised' = FALSE
        /\ ret' = solve_expm(BuiltGenerator, P0, t_eval, n_states)
        /\ UNCHANGED <<PRESETS, models, dicts, threads, attributes, constructed, n_states, state_labels, rates, dynamic_rate_specs>>

SolveSteadyState ==
    /\ call.op = "none"
    /\ HasSimpleNullSpace(BuiltGenerator, n_states)
    /\ \E factor \in EigFactors :
        /\ call' = [op |-> "solve_steady_state", W |-> BuiltGenerator, factor |-> factor]
        /\ raised' = FALSE
        /\ ret' = solve_steady_state(BuiltGenerator, factor, n_states)
        /\ UNCHANGED <<PRESETS, models, dicts, threads, attributes, constructed, n_states, state_labels, rates, dynamic_rate_specs>>

SolverNext ==
    \/ SolveExpm
    \/ SolveSteadyState

SolverSpec == SolverInit /\ [][SolverNext]_vars

----------------------------------------------------------------------------
(* Initial states and observables: RateModel.get_mixed_initial_state,       *)
(* RateSolver.compute_photon_emission and RateSolver.solve_ivp, each applied *)
(* once to a model of two or three states.  Populations handed to           *)
(* compute_photon_emission and returned by the integrator are whole numbers. *)

\* most entries of a population map handed to get_mixed_initial_state
MaxPopulations == 2
\* most time rows of a population array
MaxRows == 2
\* most excited-state indices (and radiative rates) handed to compute_photon_emission
MaxIndices == 2

\* the object's fields, and the state around it, that no query changes
model_fields ==
    <<constructed, n_states, state_labels, rates, dynamic_rate_specs, attributes,
      PRESETS, models, dicts, threads>>

\* state counts of the models the queries are applied to
QueryStateCounts == {MinStates, MinStates + 1}

\* population values handed to get_mixed_initial_state, in units of 1 / PopDen
PopValueInputs == {1, PopDen}

\* population maps handed to get_mixed_initial_state, in dict order: distinct indices,
\* from one below the range to one above it
PopulationMapInputs(n) ==
    { m \in UNION {[1 .. k -> (-1 .. n) \X PopValueInputs] : k \in 0 .. MaxPopulations} :
        \A i, j \in DOMAIN m : i # j => m[i][1] # m[j][1] }

\* np.zeros(n)
zeros_vector(n) == Eager([i \in 0 .. n - 1 |-> 0])

RECURSIVE assign_populations(_, _, _)
\* for state_index, population in populations.items(): validate, P0[state_index] = population
assign_populations(P0, populations, i) ==
    IF i > Len(populations) THEN [P0 |-> P0, raised |-> FALSE]
    ELSE IF ~validate_state_index(populations[i][1]) THEN [P0 |-> P0, raised |-> TRUE]
    ELSE assign_populations([P0 EXCEPT ![populations[i][1]] = populations[i][2]],
                            populations, i + 1)

\* mutant of the return of get_mixed_initial_state: the vector is divided by its sum
return_population_normalized(P0, n) == divide_by_sum(Canon(P0, PopDen, n), n)

\* return P0: the vector of numerators over PopDen, as a rational vector
return_population(P0, n) == Canon(P0, PopDen, n)

\* RateModel.get_mixed_initial_state
get_mixed_initial_state(populations) ==
    /\ constructed
    /\ call.op = "none"
    /\ call' = [op |-> "get_mixed_initial_state", populations |-> populations]
    /\ raised' = assign_populations(zeros_vector(n_states), populations, 1).raised
    /\ ret' = IF assign_populations(zeros_vector(n_states), populations, 1).raised
              THEN NoneVal
              ELSE return_population(
                       assign_populations(zeros_vector(n_states), populations, 1).P0,
                       n_states)
    /\ UNCHANGED model_fields

\* rows of the population arrays handed to compute_photon_emission
PopulationRows(n) ==
    { Eager([k \in 0 .. n - 1 |-> k + 1]),
      Eager([k \in 0 .. n - 1 |-> n - k]),
      Eager([k \in 0 .. n - 1 |-> IF k = 0 THEN 1 ELSE 0]) }

\* population arrays: up to MaxRows time rows
PopulationArrays(n) == UNION {[1 .. k -> PopulationRows(n)] : k \in 0 .. MaxRows}

\* radiative rates handed to compute_photon_emission: entry i is i + 1
RadiativeRateInputs == {[i \in 1 .. k |-> i + 1] : k \in 0 .. MaxIndices}

\* index arrays handed to compute_photon_emission: the last column counted from the
\* end, the first column, the last column, and one past the last column
ExcitedIndexInputs(n) == UNION {[1 .. k -> {-1, 0, n - 1, n}] : k \in 0 .. MaxIndices}

\* mutant of the length check: only too few rates are refused
lengths_differ_too_few(radiative_rates, n_es) == Len(radiative_rates) < n_es

\* len(radiative_rates) != n_es
lengths_differ(radiative_rates, n_es) == Len(radiative_rates) # n_es

\* mutant of the accumulation: = written for +=
accumulate_overwrite(emission_rate, column, rate) ==
    [r \in DOMAIN emission_rate |-> column[r] * rate]

\* emission_rate += populations[:, es_idx] * radiative_rates[i]
accumulate(emission_rate, column, rate) ==
    [r \in DOMAIN emission_rate |-> emission_rate[r] + column[r] * rate]

\* populations[:, es_idx], for an index numpy accepts
population_column(populations, es_idx, n) ==
    [r \in DOMAIN populations |-> populations[r][wrap_index(es_idx, n)]]

RECURSIVE emission_loop(_, _, _, _, _, _)
\* for i, es_idx in enumerate(excited_state_indices): ...; numpy raises IndexError on an
\* index outside the columns
emission_loop(emission_rate, populations, radiative_rates, excited_state_indices, i, n) ==
    IF i > Len(excited_state_indices)
    THEN [error |-> "none", emission_rate |-> emission_rate]
    ELSE IF index_error(excited_state_indices[i], n)
    THEN [error |-> "IndexError", emission_rate |-> emission_rate]
    ELSE emission_loop(
             accumulate(emission_rate,
                        population_column(populations, excited_state_indices[i], n),
                        radiative_rates[i]),
             populations, radiative_rates, excited_state_indices, i + 1, n)

\* RateSolver.compute_photon_emission: the error it ends with and the array it has
\* computed by then (None before np.zeros is reached)
compute_photon_emission(populations, radiative_rates, excited_state_indices, n) ==
    IF lengths_differ(radiative_rates, Len(excited_state_indices))
    THEN [error |-> "ValueError", emission_rate |-> NoneVal]
    ELSE emission_loop([r \in DOMAIN populations |-> 0], populations, radiative_rates,
                       excited_state_indices, 1, n)

\* a call of compute_photon_emission
photon_emission_call(populations, radiative_rates, excited_state_indices) ==
    /\ constructed
    /\ call.op = "none"
    /\ call' = [op |-> "compute_photon_emission",
                populations |-> populations,
                radiative_rates |-> radiative_rates,
                excited_state_indices |-> excited_state_indices,
                error |-> compute_photon_emission(populations, radiative_rates,
                                                  excited_state_indices, n_states).error,
                computed |-> compute_photon_emission(populations, radiative_rates,
                                                     excited_state_indices, n_states).emission_rate]
    /\ raised' = (compute_photon_emission(populations, radiative_rates,
                                          excited_state_indices, n_states).error # "none")
    /\ ret' = IF compute_photon_emission(populations, radiative_rates,
                                         excited_state_indices, n_states).error # "none"
              THEN NoneVal
              ELSE compute_photon_emission(populations, radiative_rates,
                                           excited_state_indices, n_states).emission_rate
    /\ UNCHANGED model_fields

\* what scipy.integrate.solve_ivp hands back, which the source does not determine: the
\* success flag, the message and y (n rows of k time points) in any combination
IntegratorMessages == {"step size too small", "done"}
IntegratorOutputs(n) ==
    { Eager([i \in 0 .. n - 1 |-> [j \in 1 .. k |-> a + i * k + j]]) :
        k \in 0 .. MaxRows, a \in {0, 1} }
IntegratorSolutions(n) ==
    [success : BOOLEAN, message : IntegratorMessages, y : IntegratorOutputs(n)]

\* mutant of the failure check: a failure is never seen
integrator_failed_never(solution) == FALSE

\* not solution.success
integrator_failed(solution) == ~solution.success

\* solution.y.T
transpose(y, n) == [j \in 1 .. Len(y[0]) |-> Eager([i \in 0 .. n - 1 |-> y[i][j]])]

\* RateSolver.solve_ivp, for the solution the integrator hands back
solve_ivp(solution) ==
    /\ constructed
    /\ call.op = "none"
    /\ call' = [op |-> "solve_ivp", solution |-> solution,
                error |-> IF integrator_failed(solution)
                          THEN Some(<<"ODE solver failed: ", solution.message>>)
                          ELSE NoneVal]
    /\ raised' = integrator_failed(solution)
    /\ ret' = IF integrator_failed(solution) THEN NoneVal ELSE transpose(solution.y, n_states)
    /\ UNCHANGED model_fields

QueryInit ==
    /\ constructed = TRUE
    /\ n_states \in QueryStateCounts
    /\ state_labels = DefaultLabels(n_states)
    /\ rates = <<>>
    /\ dynamic_rate_specs = <<>>
    /\ attributes = RateModelAttributes
    /\ PRESETS = PresetTable
    /\ models = <<>>
    /\ dicts = <<>>
    /\ threads = <<>>
    /\ call = [op |-> "none"]
    /\ raised = FALSE
    /\ ret = NoneVal

GetMixedInitialState ==
    \E populations \in PopulationMapInputs(n_states) : get_mixed_initial_state(populations)

ComputePhotonEmission ==
    \E populations \in PopulationArrays(n_states),
       radiative_rates \in RadiativeRateInputs,
       excited_state_indices \in ExcitedIndexInputs(n_states) :
        photon_emission_call(populations, radiative_rates, excited_state_indices)

SolveIvp == \E solution \in IntegratorSolutions(n_states) : solve_ivp(solution)

QueryNext ==
    \/ GetMixedInitialState
    \/ ComputePhotonEmission
    \/ SolveIvp

QuerySpec == QueryInit /\ [][QueryNext]_vars

----------------------------------------------------------------------------
(* The post-processing of solve_steady_state as a function of the selected *)
(* eigenvector: it is applied to a vector and to a multiple of it.         *)

\* the largest absolute value of an entry of the eigenvector
MaxEntry == 2

\* eigenvectors of n whole entries
EigenvectorInputs(n) == [0 .. n - 1 -> -MaxEntry .. MaxEntry]

\* factors between two eigenvectors of one eigenvalue: a change of sign, of scale, both
FactorInputs == {-MaxEntry, -1, MaxEntry}

\* lines 149-156 of solve_steady_state applied to the eigenvectors v and factor * v
PostProcess ==
    \E v \in EigenvectorInputs(n_states), factor \in FactorInputs :
        /\ constructed
        /\ call' = [op |-> "solve_steady_state", eigenvector |-> v, factor |-> factor]
        /\ raised' = FALSE
        /\ ret' = <<normalize_steady_state(v, n_states),
                    normalize_steady_state(scaled_vector(v, factor, n_states), n_states)>>
        /\ UNCHANGED model_fields

NormalizeInit == QueryInit

NormalizeNext == PostProcess

NormalizeSpec == NormalizeInit /\ [][NormalizeNext]_vars

----------------------------------------------------------------------------
(* SevenLevelModel and ODMRSimulation.compute_contrast.  A signal is a      *)
(* rational number [num, den] in lowest terms with den > 0; den = 0 stands  *)
(* for a value that is not finite (nan, inf).                              *)

\* points of the time grid of the time-integrated method; odmr.py:190 takes 10000
GridPoints == 3
\* the longest grid step of the time-integrated method, in microseconds
MaxGridStep == 1

\* seven_level.py:80-86, the state indices
GS_0 == 0
GS_MINUS == 1
GS_PLUS == 2
ES_0 == 3
ES_MINUS == 4
ES_PLUS == 5
SINGLET == 6
\* seven_level.py:102, n_states of a SevenLevelModel
SevenStates == 7

\* a / b in lowest terms
Rat(a, b) ==
    IF b = 0 THEN [num |-> 0, den |-> 0]
    ELSE [num |-> a \div ((IF b < 0 THEN -1 ELSE 1) * Gcd(a, b)),
          den |-> b \div ((IF b < 0 THEN -1 ELSE 1) * Gcd(a, b))]

RatAdd(x, y) ==
    IF x.den = 0 \/ y.den = 0 THEN Rat(0, 0)
    ELSE Rat(x.num * y.den + y.num * x.den, x.den * y.den)

RatSub(x, y) ==
    IF x.den = 0 \/ y.den = 0 THEN Rat(0, 0)
    ELSE Rat(x.num * y.den - y.num * x.den, x.den * y.den)

\* x * c for a whole number c
RatTimes(x, c) == IF x.den = 0 THEN Rat(0, 0) ELSE Rat(x.num * c, x.den)

\* x / y in numpy floats: a division by zero gives inf or nan, it does not raise
RatDiv(x, y) ==
    IF x.den = 0 \/ y.den = 0 THEN Rat(0, 0)
    ELSE Rat(x.num * y.den, x.den * y.num)

\* SevenLevelModel.LABELS_SPLIT
LABELS_SPLIT == <<"GS|0>", "GS|->", "GS|+>", "ES|0>", "ES|->", "ES|+>", "SS">>
LABELS_DEGENERATE == <<"GS|0>", "GS|-1>", "GS|+1>", "ES|0>", "ES|-1>", "ES|+1>", "SS">>

\* self.k41 = k41, self.k52 = k52 if k52 is not None else k41, ...
SevenLevelAttributes(k41, k52, k63, k47, k57, k67, k71, k72, k73) ==
    [class |-> "SevenLevelModel",
     k41 |-> k41,
     k52 |-> IF k52 # NoneVal THEN k52[1] ELSE k41,
     k63 |-> IF k63 # NoneVal THEN k63[1] ELSE k41,
     k47 |-> k47, k57 |-> k57, k67 |-> k67,
     k71 |-> k71, k72 |-> k72, k73 |-> k73]

\* mutant of _setup_fixed_rates: the radiative rates are stored from the ground states
\* to the excited states
setup_fixed_rates_reversed(a) ==
    << <<GS_0, ES_0, a.k41>>, <<GS_MINUS, ES_MINUS, a.k52>>, <<GS_PLUS, ES_PLUS, a.k63>>,
       <<ES_0, SINGLET, a.k47>>, <<ES_MINUS, SINGLET, a.k57>>, <<ES_PLUS, SINGLET, a.k67>>,
       <<SINGLET, GS_0, a.k71>>, <<SINGLET, GS_MINUS, a.k72>>, <<SINGLET, GS_PLUS, a.k73>> >>

\* the set_rate calls of _setup_fixed_rates, in order: (from_state, to_state, rate)
setup_fixed_rates(a) ==
    << <<ES_0, GS_0, a.k41>>, <<ES_MINUS, GS_MINUS, a.k52>>, <<ES_PLUS, GS_PLUS, a.k63>>,
       <<ES_0, SINGLET, a.k47>>, <<ES_MINUS, SINGLET, a.k57>>, <<ES_PLUS, SINGLET, a.k67>>,
       <<SINGLET, GS_0, a.k71>>, <<SINGLET, GS_MINUS, a.k72>>, <<SINGLET, GS_PLUS, a.k73>> >>

RECURSIVE store_rates(_, _)
\* the table a sequence of set_rate calls with valid indices leaves
store_rates(r, calls) ==
    IF calls = <<>> THEN r
    ELSE store_rates(store_rate(r, <<Head(calls)[1], Head(calls)[2]>>, Head(calls)[3]),
                     Tail(calls))

\* the registrations _setup_dynamic_rates leaves, each with the default coefficient
setup_dynamic_rates ==
    [p \in {"gamma", "kmw_minus", "kmw_plus"} |->
        IF p = "gamma"
        THEN << <<GS_0, ES_0, 1>>, <<GS_MINUS, ES_MINUS, 1>>, <<GS_PLUS, ES_PLUS, 1>> >>
        ELSE IF p = "kmw_minus"
        THEN << <<GS_0, GS_MINUS, 1>>, <<GS_MINUS, GS_0, 1>> >>
        ELSE << <<GS_0, GS_PLUS, 1>>, <<GS_PLUS, GS_0, 1>> >>]

\* the state SevenLevelModel.__init__ leaves
SevenLevelModelInit(k41, k52, k63, k47, k57, k67, k71, k72, k73) ==
    /\ constructed = TRUE
    /\ n_states = SevenStates
    /\ state_labels = LABELS_SPLIT
    /\ attributes = SevenLevelAttributes(k41, k52, k63, k47, k57, k67, k71, k72, k73)
    /\ rates = store_rates(<<>>, setup_fixed_rates(
                    SevenLevelAttributes(k41, k52, k63, k47, k57, k67, k71, k72, k73)))
    /\ dynamic_rate_specs = setup_dynamic_rates

\* SevenLevelModel.build_rate_matrix(gamma, kmw_minus, kmw_plus)
seven_level_build(r, d, gamma, kmw_minus, kmw_plus) ==
    build_rate_matrix(SevenStates, r, d,
        [p \in {"gamma", "kmw_minus", "kmw_plus"} |->
            IF p = "gamma" THEN gamma ELSE IF p = "kmw_minus" THEN kmw_minus ELSE kmw_plus])

\* SevenLevelModel.get_ground_state_mixed: [1/3, 1/3, 1/3, 0, 0, 0, 0]
get_ground_state_mixed ==
    Canon([i \in 0 .. SevenStates - 1 |->
              IF i \in {GS_0, GS_MINUS, GS_PLUS} THEN 1 ELSE 0], 3, SevenStates)

\* get_initial_state(state_index) for a valid index
indicator(state_index, n) ==
    Canon([i \in 0 .. n - 1 |-> IF i = state_index THEN 1 ELSE 0], 1, n)

\* the columns of W that are entirely zero: the states without outflow
zero_columns(W, n) == {i \in 0 .. n - 1 : \A j \in 0 .. n - 1 : W[j][i] = 0}

\* the eigenvectors np.linalg.eig may hand back for the eigenvalue nearest to 0 of a
\* built generator: a multiple of the null vector when the null space is a line; when
\* it is larger, the unit vector of a state without outflow if there is one (the
\* balancing step of the LAPACK routine behind np.linalg.eig isolates such a state and
\* its eigenvalue is exactly 0), and otherwise any non-zero null vector (here: with
\* entries in -1 .. 1)
eigenvectors(W, n) ==
    IF HasSimpleNullSpace(W, n)
    THEN {scaled_vector(null_vector(W, n), factor, n) : factor \in EigFactors}
    ELSE IF zero_columns(W, n) # {}
    THEN {Eager([j \in 0 .. n - 1 |-> IF j = i THEN 1 ELSE 0]) : i \in zero_columns(W, n)}
    ELSE {Eager(v) : v \in {u \in [0 .. n - 1 -> -1 .. 1] :
                                /\ u # zeros_vector(n)
                                /\ matvec(W, u, n) = zeros_vector(n)}}

\* P[ES_0] * k41 + P[ES_MINUS] * k52 + P[ES_PLUS] * k63
pl_intensity(P, a) ==
    Rat(P.num[ES_0] * a.k41 + P.num[ES_MINUS] * a.k52 + P.num[ES_PLUS] * a.k63, P.den)

\* P[ES_0] + P[ES_MINUS] + P[ES_PLUS]
es_population(P) == Rat(P.num[ES_0] + P.num[ES_MINUS] + P.num[ES_PLUS], P.den)

\* mutant of the zero guard: the reference signal is never taken to be 0
signal_is_zero_never(x) == FALSE

\* I_nomw == 0 (ES_nomw == 0): false for nan
signal_is_zero(x) == x.den # 0 /\ x.num = 0

\* if I_nomw == 0: return 0.0; return (I_nomw - I_mw) / I_nomw
contrast_ratio(I_nomw, I_mw) ==
    IF signal_is_zero(I_nomw) THEN Rat(0, 1)
    ELSE RatDiv(RatSub(I_nomw, I_mw), I_nomw)

\* if ES_nomw == 0: return 0.0; return 1.0 - ES_mw / ES_nomw
contrast_complement(ES_nomw, ES_mw) ==
    IF signal_is_zero(ES_nomw) THEN Rat(0, 1)
    ELSE RatSub(Rat(1, 1), RatDiv(ES_mw, ES_nomw))

\* the record of one contrast method: the initial population it started from (None
\* when it takes none), the populations the two signals are read from, the two
\* signals and the contrast returned
contrast_record(initial, pop_nomw, pop_mw, reference, perturbed, contrast) ==
    [initial |-> initial, pop_nomw |-> pop_nomw, pop_mw |-> pop_mw,
     reference |-> reference, perturbed |-> perturbed, contrast |-> contrast]

\* _contrast_steady_state for the eigenvectors v_nomw and v_mw that np.linalg.eig hands
\* back
contrast_steady_state(a, v_nomw, v_mw) ==
    LET P_ss_nomw == normalize_steady_state(v_nomw, SevenStates)
        P_ss_mw == normalize_steady_state(v_mw, SevenStates)
    IN  contrast_record(NoneVal, <<P_ss_nomw>>, <<P_ss_mw>>,
                        pl_intensity(P_ss_nomw, a), pl_intensity(P_ss_mw, a),
                        contrast_ratio(pl_intensity(P_ss_nomw, a), pl_intensity(P_ss_mw, a)))

\* if P0 is None: P0 = self.model.get_ground_state_mixed()
initial_population(P0) == IF P0 = NoneVal THEN get_ground_state_mixed ELSE P0[1]

\* pop[-1]
last_row(pop) == pop[Len(pop)]

\* _contrast_transient for the generators W_nomw and W_mw
contrast_transient(W_nomw, W_mw, P0, t_integration) ==
    LET pop_nomw == solve_expm(W_nomw, initial_population(P0), <<0, t_integration>>,
                               SevenStates)
        pop_mw == solve_expm(W_mw, initial_population(P0), <<0, t_integration>>,
                             SevenStates)
    IN  contrast_record(Some(initial_population(P0)), pop_nomw, pop_mw,
                        es_population(last_row(pop_nomw)), es_population(last_row(pop_mw)),
                        contrast_complement(es_population(last_row(pop_nomw)),
                                            es_population(last_row(pop_mw))))

\* np.linspace(0, t_integration, GridPoints) for a t_integration that is a whole number
\* of grid steps
linspace(t_integration) ==
    [i \in 1 .. GridPoints |-> (i - 1) * (t_integration \div (GridPoints - 1))]

\* compute_pl(populations): the photoluminescence of every row
compute_pl(pop, a) == [i \in DOMAIN pop |-> pl_intensity(pop[i], a)]

RECURSIVE trapz_to(_, _, _)
\* the trapezoid sum over the first i intervals
trapz_to(y, t, i) ==
    IF i = 0 THEN Rat(0, 1)
    ELSE RatAdd(trapz_to(y, t, i - 1),
                RatDiv(RatTimes(RatAdd(y[i], y[i + 1]), t[i + 1] - t[i]), Rat(2, 1)))

\* np.trapz(y, t), times in microseconds
trapz(y, t) == trapz_to(y, t, Len(t) - 1)

\* _contrast_time_integrated for the generators W_nomw and W_mw
contrast_time_integrated(W_nomw, W_mw, P0, t_integration, a) ==
    LET t_eval == linspace(t_integration)
        pop_nomw == solve_expm(W_nomw, initial_population(P0), t_eval, SevenStates)
        pop_mw == solve_expm(W_mw, initial_population(P0), t_eval, SevenStates)
        I_nomw == trapz(compute_pl(pop_nomw, a), t_eval)
        I_mw == trapz(compute_pl(pop_mw, a), t_eval)
    IN  contrast_record(Some(initial_population(P0)), pop_nomw, pop_mw,
                        I_nomw, I_mw, contrast_ratio(I_nomw, I_mw))

\* the method names compute_contrast knows
ContrastMethods == {"steady_state", "transient", "time_integrated"}

\* what a compute_contrast call that passed its checks may come to, for the generators
\* it has built: one outcome, or one for each choice of np.linalg.eig, which hands back
\* the same eigenvector when it is given the same matrix
contrast_outcomes(a, W_nomw, W_mw, P0, t_integration, method) ==
    IF method = "steady_state"
    THEN {contrast_steady_state(a, v[1], v[2]) :
              v \in {u \in eigenvectors(W_nomw, SevenStates) \X eigenvectors(W_mw, SevenStates) :
                         W_nomw = W_mw => u[1] = u[2]}}
    ELSE IF method = "transient"
    THEN {contrast_transient(W_nomw, W_mw, P0, t_integration)}
    ELSE {contrast_time_integrated(W_nomw, W_mw, P0, t_integration, a)}

\* not isinstance(self.model, SevenLevelModel)
not_seven_level(a) == a.class # "SevenLevelModel"

\* mutant of the dispatch: the final else is never reached
unknown_method_never(method) == FALSE

\* the final else of the dispatch on method
unknown_method(method) == method \notin ContrastMethods

\* the error compute_contrast raises before it builds anything: None when it raises none
contrast_error(a, method) ==
    IF not_seven_level(a)
    THEN Some([type |-> "ValueError", message |-> <<"compute_contrast requires SevenLevelModel">>])
    ELSE IF unknown_method(method)
    THEN Some([type |-> "ValueError", message |-> <<"Unknown method: ", method>>])
    ELSE NoneVal

\* mutant of the reference build: the microwave is left on
no_microwave_on(kmw) == 1

\* kmw_minus=0.0, kmw_plus=0.0 of the reference build
no_microwave(kmw) == 0

\* the arguments of a compute_contrast call
contrast_arguments(gamma, kmw_minus, kmw_plus, P0, t_integration, method) ==
    [op |-> "compute_contrast", method |-> method, gamma |-> gamma,
     kmw_minus |-> kmw_minus, kmw_plus |-> kmw_plus, P0 |-> P0,
     t_integration |-> t_integration]

\* ODMRSimulation.compute_contrast.  The call record keeps, next to the arguments, the
\* error message, the number of generators built and of solver calls made, the two
\* generators and what the method made of them.
compute_contrast(gamma, kmw_minus, kmw_plus, P0, t_integration, method) ==
    /\ constructed
    /\ call.op = "none"
    /\ IF contrast_error(attributes, method) # NoneVal
       THEN /\ call' = contrast_arguments(gamma, kmw_minus, kmw_plus, P0, t_integration, method)
                         @@ [error |-> contrast_error(attributes, method),
                             builds |-> 0, solves |-> 0,
                             W_nomw |-> NoneVal, W_mw |-> NoneVal,
                             initial |-> NoneVal, pop_nomw |-> NoneVal, pop_mw |-> NoneVal,
                             reference |-> NoneVal, perturbed |-> NoneVal]
            /\ raised' = TRUE
            /\ ret' = NoneVal
       ELSE LET W_nomw == seven_level_build(rates, dynamic_rate_specs, gamma,
                                            no_microwave(kmw_minus), no_microwave(kmw_plus))
                W_mw == seven_level_build(rates, dynamic_rate_specs, gamma,
                                          kmw_minus, kmw_plus)
            IN  \E outcome \in contrast_outcomes(attributes, W_nomw, W_mw, P0,
                                                 t_integration, method) :
                  /\ call' = contrast_arguments(gamma, kmw_minus, kmw_plus, P0,
                                                t_integration, method)
                               @@ [error |-> NoneVal,
                                   builds |-> 2, solves |-> 2,
                                   W_nomw |-> W_nomw, W_mw |-> W_mw,
                                   initial |-> outcome.initial,
                                   pop_nomw |-> outcome.pop_nomw,
                                   pop_mw |-> outcome.pop_mw,
                                   reference |-> Some(outcome.reference),
                                   perturbed |-> Some(outcome.perturbed)]
                  /\ raised' = FALSE
                  /\ ret' = outcome.contrast
    /\ UNCHANGED model_fields

\* rate parameters handed to SevenLevelModel: k41 and k52; the other seven are fixed
SevenLevelInputs == {0, 2} \X {NoneVal, Some(1)}

\* gamma, kmw_minus and kmw_plus handed to compute_contrast (MHz)
DriveInputs == {0, 1}

\* initial populations handed to compute_contrast
ContrastP0Inputs ==
    {NoneVal, Some(indicator(GS_0, SevenStates)), Some(indicator(ES_0, SevenStates))}

\* integration times handed to compute_contrast, in microseconds: whole numbers of
\* grid steps
IntegrationTimeInputs == {(GridPoints - 1) * m : m \in 0 .. MaxGridStep}

\* (method, P0, t_integration) handed to compute_contrast; the steady-state method and
\* an unknown method read neither P0 nor t_integration and get the defaults
ContrastCallInputs ==
    ({"steady_state", "other"} \X {NoneVal} \X {(GridPoints - 1) * MaxGridStep})
      \cup ({"transient", "time_integrated"} \X ContrastP0Inputs \X IntegrationTimeInputs)

ContrastInit ==
    /\ \/ \E k \in SevenLevelInputs :
             SevenLevelModelInit(k[1], k[2], NoneVal, 1, 1, 2, 2, 1, 1)
       \/ /\ constructed = TRUE
          /\ n_states = MinStates
          /\ state_labels = DefaultLabels(MinStates)
          /\ rates = <<>>
          /\ dynamic_rate_specs = <<>>
          /\ attributes = RateModelAttributes
    /\ PRESETS = PresetTable
    /\ models = <<>>
    /\ dicts = <<>>
    /\ threads = <<>>
    /\ call = [op |-> "none"]
    /\ raised = FALSE
    /\ ret = NoneVal

ComputeContrast ==
    \E gamma \in DriveInputs, kmw_minus \in DriveInputs, kmw_plus \in DriveInputs,
       c \in ContrastCallInputs :
        compute_contrast(gamma, kmw_minus, kmw_plus, c[2], c[3], c[1])

ContrastNext == ComputeContrast

ContrastSpec == ContrastInit /\ [][ContrastNext]_vars

----------------------------------------------------------------------------
(* get_preset.  The models it returns are objects of their own: models     *)
(* holds them in the order of their creation, and the _rates attribute of  *)
(* each is the identity of a dict object in dicts.                         *)

\* most models get_preset returns in one behaviour
MaxModels == 2

\* name_lower = name.lower().replace("-", "_").replace("@", "_").replace(" ", "_")
name_lower(name) == replace(replace(replace(lower(name), "-", "_"), "@", "_"), " ", "_")

\* rate_params: the entries of the preset that are no description and no references
rate_params(config) ==
    [k \in (DOMAIN config) \ {"description", "references"} |-> config[k]]

\* mutant of the dict the constructor makes: the dict of the first model is used again
new_dict_shared(d) == 1

\* self._rates = {}: the identity of the dict the constructor makes
new_dict(d) == Len(d) + 1

\* the dicts after the constructor made the dict id and _setup_fixed_rates filled it
constructed_dicts(d, id, a) ==
    [i \in (DOMAIN d) \cup {id} |-> IF i = id THEN store_rates(<<>>, setup_fixed_rates(a))
                                     ELSE d[i]]

\* the object SevenLevelModel(**rate_params) leaves, its _rates being the dict id
seven_level_model(params, id) ==
    [n_states |-> SevenStates,
     state_labels |-> IF params.use_degenerate_labels THEN LABELS_DEGENERATE
                      ELSE LABELS_SPLIT,
     attributes |-> SevenLevelAttributes(params.k41, Some(params.k52), Some(params.k63),
                                         params.k47, params.k57, params.k67,
                                         params.k71, params.k72, params.k73),
     rates |-> id,
     dynamic_rate_specs |-> setup_dynamic_rates]

\* names handed to get_preset: the five keys, keys in upper case and with '-', '@' and
\* ' ' for '_', and names that give no key
PresetNames ==
    {KEY_NV_BULK, KEY_G9_G8_30DP, KEY_G4_G9_90DP, KEY_GP7_GP3_30DP, KEY_G11_GM9_30DP,
     <<"N", "V", "_", "B", "U", "L", "K">>, <<"N", "V", "-", "B", "u", "l", "k">>, <<"n", "v", " ", "b", "u", "l", "k">>, <<"G", "4", "@", "G", "9", "-", "9", "0", "d", "p">>,
     <<"n", "o", "n", "e", "x", "i", "s", "t", "e", "n", "t", "_", "p", "r", "e", "s", "e", "t">>, <<"n", "v", ".", "b", "u", "l", "k">>, <<"n", "v", "b", "u", "l", "k">>, <<>>}

\* get_preset(name); ret is the position in models of the model returned
GetPreset ==
    \E name \in PresetNames :
        /\ Len(models) < MaxModels
        /\ call' = [op |-> "get_preset", name |-> name,
                    error |-> IF name_lower(name) \notin DOMAIN PRESETS
                              THEN ValueError(<<"Unknown preset: ", name>>) ELSE NoneVal]
        /\ IF name_lower(name) \notin DOMAIN PRESETS
           THEN /\ raised' = TRUE
                /\ ret' = NoneVal
                /\ UNCHANGED <<models, dicts>>
           ELSE LET config == PRESETS[name_lower(name)]
                    model == seven_level_model(rate_params(config), new_dict(dicts))
                IN  /\ raised' = FALSE
                    /\ dicts' = constructed_dicts(dicts, new_dict(dicts), model.attributes)
                    /\ models' = Append(models, model)
                    /\ ret' = Len(models) + 1
        /\ UNCHANGED <<PRESETS, threads, attributes, constructed, n_states, state_labels,
                       rates, dynamic_rate_specs>>

\* RateModel.set_rate on a model get_preset returned, with indices that pass the checks
model_set_rate(m, from_state, to_state, rate) ==
    /\ m \in DOMAIN models
    /\ 0 <= from_state /\ from_state < models[m].n_states
    /\ 0 <= to_state /\ to_state < models[m].n_states
    /\ from_state # to_state
    /\ call' = [op |-> "model.set_rate", model |-> m, from_state |-> from_state,
                to_state |-> to_state, rate |-> rate]
    /\ raised' = FALSE
    /\ ret' = NoneVal
    /\ dicts' = [dicts EXCEPT ![models[m].rates] =
                    store_rate(dicts[models[m].rates], <<from_state, to_state>>, rate)]
    /\ UNCHANGED <<PRESETS, models, threads, attributes, constructed, n_states,
                   state_labels, rates, dynamic_rate_specs>>

\* (from_state, to_state) handed to set_rate on a returned model: a pair the preset
\* filled and a pair it left out
PresetPairInputs == {<<ES_0, GS_0>>, <<GS_0, GS_MINUS>>}

\* the rate handed to set_rate on a returned model, in thousandths of MHz
PresetRateInputs == {2000}

\* no model is made yet
PresetInit == Init

ModelSetRate ==
    \E m \in 1 .. MaxModels, ft \in PresetPairInputs, rate \in PresetRateInputs :
        model_set_rate(m, ft[1], ft[2], rate)

PresetNext ==
    \/ GetPreset
    \/ ModelSetRate

PresetSpec == PresetInit /\ [][PresetNext]_vars

----------------------------------------------------------------------------
(* A SevenLevelModel from its constructor on, under the setters it inherits. *)

\* SevenLevelModel.__init__(k41, k52, k63, k47, k57, k67, k71, k72, k73,
\* use_degenerate_labels)
seven_level_init(k41, k52, k63, k47, k57, k67, k71, k72, k73, use_degenerate_labels) ==
    /\ ~constructed
    /\ call' = [op |-> "SevenLevelModel.__init__", k41 |-> k41, k52 |-> k52, k63 |-> k63,
                k47 |-> k47, k57 |-> k57, k67 |-> k67, k71 |-> k71, k72 |-> k72,
                k73 |-> k73, use_degenerate_labels |-> use_degenerate_labels]
    /\ raised' = FALSE
    /\ ret' = NoneVal
    /\ constructed' = TRUE
    /\ n_states' = SevenStates
    /\ state_labels' = IF use_degenerate_labels THEN LABELS_DEGENERATE ELSE LABELS_SPLIT
    /\ attributes' = SevenLevelAttributes(k41, k52, k63, k47, k57, k67, k71, k72, k73)
    /\ rates' = store_rates(<<>>, setup_fixed_rates(
                     SevenLevelAttributes(k41, k52, k63, k47, k57, k67, k71, k72, k73)))
    /\ dynamic_rate_specs' = setup_dynamic_rates
    /\ UNCHANGED <<PRESETS, models, dicts, threads>>

\* k52 and k63 handed to the constructor: left out, or a value
OptionalRateInputs == {NoneVal, Some(1)}

\* (from_state, to_state) handed to set_rate on a SevenLevelModel: pairs the constructor
\* filled, a pair it left out, a self pair and a pair out of range
SevenPairInputs ==
    {<<ES_0, GS_0>>, <<ES_MINUS, GS_MINUS>>, <<ES_0, SINGLET>>, <<SINGLET, GS_PLUS>>,
     <<GS_0, GS_MINUS>>, <<GS_0, GS_0>>, <<ES_0, SevenStates>>}

SevenLevelInit == Init

SevenLevelConstruct ==
    \E k41 \in {0, 2}, k52 \in OptionalRateInputs, k63 \in OptionalRateInputs,
       use_degenerate_labels \in BOOLEAN :
        seven_level_init(k41, k52, k63, 1, 1, 2, 2, 1, 1, use_degenerate_labels)

SevenSetRate ==
    \E ft \in SevenPairInputs, rate \in RateInputs : set_rate(ft[1], ft[2], rate)

SevenLevelNext ==
    \/ SevenLevelConstruct
    \/ SevenSetRate

SevenLevelSpec == SevenLevelInit /\ [][SevenLevelNext]_vars

----------------------------------------------------------------------------
(* Calls of build_rate_matrix and of the solver from several threads, on   *)
(* one model whose setup is over.  The working matrix W, the result and    *)
(* the populations are locals of the call in flight on a thread; RateSolver *)
(* has no attribute.  Each loop of build_rate_matrix is one step.          *)

\* threads calling into the model
MaxThreads == 2

\* a thread with no call in flight
idle == [pc |-> "idle", kwargs |-> NoneVal, W |-> NoneVal, result |-> NoneVal,
         P0 |-> NoneVal, populations |-> NoneVal]

\* mutant of the working matrix: one matrix serves the calls of all threads
shared_matrix(t) == 1

\* W = np.zeros(...) is a local of the call: the call on thread t works on its own
local_matrix(t) == t

\* the working matrix of the call on thread t
working(t) == threads[local_matrix(t)].W

\* keyword arguments handed to build_rate_matrix by a thread
ThreadKwargs ==
    {[gamma |-> 1, kmw_minus |-> kmw_minus, kmw_plus |-> 0] : kmw_minus \in DriveInputs}

\* W = np.zeros((self.n_states, self.n_states))
ThreadBuildBegin ==
    \E t \in 1 .. MaxThreads, kwargs \in ThreadKwargs :
        /\ constructed
        /\ threads[t].pc = "idle"
        /\ threads' = [[threads EXCEPT ![t] = [idle EXCEPT !.pc = "fixed", !.kwargs = kwargs,
                                                          !.W = threads[t].W]]
                          EXCEPT ![local_matrix(t)].W = fresh_matrix(n_states)]
        /\ UNCHANGED <<PRESETS, models, dicts, attributes, constructed, n_states, state_labels,
                       rates, dynamic_rate_specs, call, raised, ret>>

\* for (from_state, to_state), rate in self._rates.items(): ...
ThreadBuildFixed ==
    \E t \in 1 .. MaxThreads :
        /\ threads[t].pc = "fixed"
        /\ threads' = [[threads EXCEPT ![t].pc = "dynamic"]
                          EXCEPT ![local_matrix(t)].W =
                              add_fixed_rates(working(t), rates, DOMAIN rates)]
        /\ UNCHANGED <<PRESETS, models, dicts, attributes, constructed, n_states, state_labels,
                       rates, dynamic_rate_specs, call, raised, ret>>

\* for param_name, transitions in self._dynamic_rate_specs.items(): ...
ThreadBuildDynamic ==
    \E t \in 1 .. MaxThreads :
        /\ threads[t].pc = "dynamic"
        /\ threads' = [[threads EXCEPT ![t].pc = "diagonal"]
                          EXCEPT ![local_matrix(t)].W =
                              add_dynamic_rates(working(t), dynamic_rate_specs,
                                                DOMAIN dynamic_rate_specs, threads[t].kwargs)]
        /\ UNCHANGED <<PRESETS, models, dicts, attributes, constructed, n_states, state_labels,
                       rates, dynamic_rate_specs, call, raised, ret>>

\* for i in range(self.n_states): W[i, i] = -np.sum(W[:, i]) + W[i, i]
ThreadBuildDiagonal ==
    \E t \in 1 .. MaxThreads :
        /\ threads[t].pc = "diagonal"
        /\ threads' = [[threads EXCEPT ![t].pc = "scale"]
                          EXCEPT ![local_matrix(t)].W = set_diagonal(working(t), n_states, 0)]
        /\ UNCHANGED <<PRESETS, models, dicts, attributes, constructed, n_states, state_labels,
                       rates, dynamic_rate_specs, call, raised, ret>>

\* return W * 1e6
ThreadBuildReturn ==
    \E t \in 1 .. MaxThreads :
        /\ threads[t].pc = "scale"
        /\ threads' = [threads EXCEPT ![t].pc = "built",
                                      ![t].result = MatScale(working(t), n_states, Scale)]
        /\ UNCHANGED <<PRESETS, models, dicts, attributes, constructed, n_states, state_labels,
                       rates, dynamic_rate_specs, call, raised, ret>>

\* the times handed to the solver by a thread, in microseconds
ThreadTimes == <<0, 1>>

\* RateSolver.solve_expm(W, P0, t_eval) on the generator the thread built
ThreadSolve ==
    \E t \in 1 .. MaxThreads, P0 \in {indicator(GS_0, SevenStates)} :
        /\ threads[t].pc = "built"
        /\ threads' = [threads EXCEPT ![t].pc = "solved",
                                      ![t].P0 = P0,
                                      ![t].populations =
                                          solve_expm(threads[t].result, P0, ThreadTimes, n_states)]
        /\ UNCHANGED <<PRESETS, models, dicts, attributes, constructed, n_states, state_labels,
                       rates, dynamic_rate_specs, call, raised, ret>>

\* the thread drops the results of its calls and is free for the next
ThreadFinish ==
    \E t \in 1 .. MaxThreads :
        /\ threads[t].pc = "solved"
        /\ threads' = [threads EXCEPT ![t] = [idle EXCEPT !.W = threads[t].W]]
        /\ UNCHANGED <<PRESETS, models, dicts, attributes, constructed, n_states, state_labels,
                       rates, dynamic_rate_specs, call, raised, ret>>

\* a SevenLevelModel after its setup, no call in flight
ThreadInit ==
    /\ \E k52 \in OptionalRateInputs : SevenLevelModelInit(2, k52, NoneVal, 1, 1, 2, 2, 1, 1)
    /\ PRESETS = PresetTable
    /\ models = <<>>
    /\ dicts = <<>>
    /\ threads = [t \in 1 .. MaxThreads |-> idle]
    /\ call = [op |-> "none"]
    /\ raised = FALSE
    /\ ret = NoneVal

ThreadNext ==
    \/ ThreadBuildBegin
    \/ ThreadBuildFixed
    \/ ThreadBuildDynamic
    \/ ThreadBuildDiagonal
    \/ ThreadBuildReturn
    \/ ThreadSolve
    \/ ThreadFinish

ThreadSpec == ThreadInit /\ [][ThreadNext]_vars

----------------------------------------------------------------------------
(* ReadoutSimulation: _parse_initial_state and run.  A value handed to      *)
(* _parse_initial_state carries its Python type: [type, value].            *)

\* the string keys of state_map
STR_GS0 == <<"g", "s", "0">>
STR_GS_0 == <<"g", "s", "_", "0">>
STR_GS_MINUS == <<"g", "s", "_", "m", "i", "n", "u", "s">>
STR_GS_DASH == <<"g", "s", "-">>
STR_GS_PLUS == <<"g", "s", "_", "p", "l", "u", "s">>
STR_GS_CROSS == <<"g", "s", "+">>
STR_100 == <<"1", "0", "0">>
STR_010 == <<"0", "1", "0">>
STR_001 == <<"0", "0", "1">>

\* state_map of _parse_initial_state
state_map ==
    (STR_GS0 :> GS_0) @@ (STR_GS_0 :> GS_0)
      @@ (STR_GS_MINUS :> GS_MINUS) @@ (STR_GS_DASH :> GS_MINUS)
      @@ (STR_GS_PLUS :> GS_PLUS) @@ (STR_GS_CROSS :> GS_PLUS)
      @@ (STR_100 :> GS_0) @@ (STR_010 :> GS_MINUS) @@ (STR_001 :> GS_PLUS)

\* a Python value with its type
Typed(type, value) == [type |-> type, value |-> value]

\* isinstance(x, int): bool is a subclass of int
is_int(x) == x.type \in {"int", "bool"}

\* the number a Python int or bool compares as
int_value(x) == IF x.type = "bool" THEN (IF x.value THEN 1 ELSE 0) ELSE x.value

\* P0[state_index] = 1.0 on P0 = np.zeros(n), for an index that passed the range check:
\* numpy takes a bool index as a mask over the whole array (True: every entry is
\* assigned, False: none), an int index as a position
assign_one(state_index, n) ==
    IF state_index.type = "bool"
    THEN Canon([i \in 0 .. n - 1 |-> IF state_index.value THEN 1 ELSE 0], 1, n)
    ELSE indicator(state_index.value, n)

\* RateModel.get_initial_state: the error raised (None when there is none) and P0
get_initial_state(state_index) ==
    IF ~validate_state_index(int_value(state_index))
    THEN [error |-> ValueError(<<"state_index", int_value(state_index), "is out of bounds">>),
          P0 |-> NoneVal]
    ELSE [error |-> NoneVal, P0 |-> assign_one(state_index, n_states)]

\* state_lower = initial_state.lower()
state_lower(initial_state) == lower(initial_state)

\* ReadoutSimulation._parse_initial_state: the error raised (None when there is none)
\* and the vector returned
parse_initial_state(initial_state) ==
    IF initial_state.type = "ndarray"
    THEN [error |-> NoneVal, P0 |-> initial_state.value]
    ELSE IF is_int(initial_state)
    THEN get_initial_state(initial_state)
    ELSE IF initial_state.type = "str"
    THEN IF not_seven_level(attributes)
         THEN [error |-> ValueError(<<"String initial states only supported for SevenLevelModel">>),
               P0 |-> NoneVal]
         ELSE IF state_lower(initial_state.value) \notin DOMAIN state_map
         THEN [error |-> ValueError(<<"Unknown initial state: ", initial_state.value>>),
               P0 |-> NoneVal]
         ELSE get_initial_state(Typed("int", state_map[state_lower(initial_state.value)]))
    ELSE [error |-> ValueError(<<"Invalid initial_state type: ", initial_state.type>>),
          P0 |-> NoneVal]

\* a call of _parse_initial_state
parse_initial_state_call(initial_state) ==
    /\ constructed
    /\ call.op = "none"
    /\ call' = [op |-> "_parse_initial_state", initial_state |-> initial_state,
                error |-> parse_initial_state(initial_state).error]
    /\ raised' = (parse_initial_state(initial_state).error # NoneVal)
    /\ ret' = parse_initial_state(initial_state).P0
    /\ UNCHANGED model_fields

\* the generator run builds: without microwave for a SevenLevelModel, with gamma alone
\* for another model (no further model_kwargs are passed here)
readout_generator(gamma) ==
    IF not_seven_level(attributes)
    THEN build_rate_matrix(n_states, rates, dynamic_rate_specs, [p \in {"gamma"} |-> gamma])
    ELSE seven_level_build(rates, dynamic_rate_specs, gamma, 0, 0)

\* es_total of run: the three excited-state populations of every row, None for a
\* model that is not a SevenLevelModel
es_total(populations) ==
    IF not_seven_level(attributes) THEN NoneVal
    ELSE Some([i \in DOMAIN populations |-> es_population(populations[i])])

\* ReadoutSimulation.run(gamma, initial_state, t_max) with t_min = 0, linear time and
\* n_points = GridPoints: the generator is built, then the initial state is parsed
run(gamma, initial_state, t_max) ==
    /\ constructed
    /\ call.op = "none"
    /\ call' = [op |-> "run", gamma |-> gamma, initial_state |-> initial_state,
                t_max |-> t_max, W |-> readout_generator(gamma),
                error |-> parse_initial_state(initial_state).error]
    /\ raised' = (parse_initial_state(initial_state).error # NoneVal)
    /\ ret' = IF parse_initial_state(initial_state).error # NoneVal THEN NoneVal
              ELSE LET populations == solve_expm(readout_generator(gamma),
                                                 parse_initial_state(initial_state).P0,
                                                 linspace(t_max), n_states)
                   IN  [t |-> linspace(t_max),
                        populations |-> populations,
                        es_total |-> es_total(populations),
                        labels |-> state_labels,
                        initial_state |-> initial_state,
                        P0 |-> parse_initial_state(initial_state).P0]
    /\ UNCHANGED model_fields

\* strings handed to _parse_initial_state: the nine keys, keys in upper and mixed
\* case, and strings that are no key
InitialStateStrings ==
    {STR_GS0, STR_GS_0, STR_GS_MINUS, STR_GS_DASH, STR_GS_PLUS, STR_GS_CROSS,
     STR_100, STR_010, STR_001,
     <<"G", "S", "0">>, <<"G", "s", "_", "M", "i", "n", "u", "s">>, <<"G", "S", "+">>,
     <<"g", "s", "1">>, <<"e", "s", "0">>, <<" ", "g", "s", "0">>, <<>>}

\* the Python types of the values handed to _parse_initial_state
InitialStateTypes == {"ndarray", "int", "bool", "str", "float", "NoneType", "list"}

\* values handed to _parse_initial_state, by type: arrays (one that is no population
\* of the model), ints from one below the range to the states of the larger model and
\* one above, bools, strings, and values of other types
InitialStateValues(type) ==
    CASE type = "ndarray" -> {indicator(1, MinStates), Canon([i \in 0 .. 2 |-> 2 - i], 1, 3)}
      [] type = "int" -> {-1, 0, 1, MinStates, SevenStates - 1, SevenStates}
      [] type = "bool" -> BOOLEAN
      [] type = "str" -> InitialStateStrings
      [] type = "float" -> {1}
      [] type = "NoneType" -> {NoneVal}
      [] type = "list" -> {<<1, 0>>}

\* initial states handed to run, by type: the three ground states by name and a name
\* that is no key, a ground state and an excited state by index
RunStateValues(type) ==
    CASE type = "str" -> {STR_GS0, STR_GS_MINUS, STR_GS_PLUS, <<"e", "s", "0">>}
      [] type = "int" -> {0, ES_0}

ReadoutInit == ContrastInit

ParseInitialState ==
    \E type \in InitialStateTypes : \E value \in InitialStateValues(type) :
        parse_initial_state_call(Typed(type, value))

Run ==
    \E gamma \in DriveInputs, type \in {"str", "int"}, t_max \in IntegrationTimeInputs :
        \E value \in RunStateValues(type) :
            run(gamma, Typed(type, value), t_max)

ReadoutNext ==
    \/ ParseInitialState
    \/ Run

ReadoutSpec == ReadoutInit /\ [][ReadoutNext]_vars

----------------------------------------------------------------------------
(* Properties of the model builder                                         *)

\* np.sum of the off-diagonal entries of column i
OffDiagColSum(W, n, i) == SumTo([j \in 0 .. n - 1 |-> IF j = i THEN 0 ELSE W[j][i]], n)

\* the fixed rate stored for (from, to), 0 when there is none
StoredRate(r, from, to) == IF <<from, to>> \in DOMAIN r THEN r[<<from, to>>] ELSE 0

\* the value passed for a parameter, 0 when it is not passed
PassedValue(kwargs, p) == IF p \in DOMAIN kwargs THEN kwargs[p] ELSE 0

\* what the registrations of parameter p on (from, to) contribute
ParamContribution(d, kwargs, p, from, to) ==
    SumTo([k \in 0 .. Len(d[p]) - 1 |->
              IF d[p][k + 1][1] = from /\ d[p][k + 1][2] = to
              THEN PassedValue(kwargs, p) * d[p][k + 1][3] ELSE 0],
          Len(d[p]))

RECURSIVE DynamicContribution(_, _, _, _, _)
\* what all registrations on (from, to) contribute
DynamicContribution(d, kwargs, names, from, to) ==
    IF names = {} THEN 0
    ELSE LET p == CHOOSE x \in names : TRUE
         IN  ParamContribution(d, kwargs, p, from, to)
               + DynamicContribution(d, kwargs, names \ {p}, from, to)

\* the total rate from -> to, in 1/s
ExpectedRate(r, d, kwargs, from, to) ==
    Scale * (StoredRate(r, from, to) + DynamicContribution(d, kwargs, DOMAIN d, from, to))

\* the generator the tables and the keyword arguments determine
GeneratorOf(n, r, d, kwargs) ==
    [to \in 0 .. n - 1 |-> [from \in 0 .. n - 1 |->
        IF to # from THEN ExpectedRate(r, d, kwargs, from, to)
        ELSE -SumTo([j \in 0 .. n - 1 |->
                        IF j = from THEN 0 ELSE ExpectedRate(r, d, kwargs, from, j)], n)]]

\* a self registration (from = to) of a parameter that is passed with a non-zero value
HasLiveSelfRegistration ==
    \E p \in DOMAIN dynamic_rate_specs : \E k \in DOMAIN dynamic_rate_specs[p] :
        /\ dynamic_rate_specs[p][k][1] = dynamic_rate_specs[p][k][2]
        /\ PassedValue(call.kwargs, p) # 0

C2_OffDiagonalEntries ==
    call.op = "build_rate_matrix" =>
        \A from \in 0 .. n_states - 1, to \in 0 .. n_states - 1 :
            from # to =>
                ret[to][from]
                  = ExpectedRate(rates, dynamic_rate_specs, call.kwargs, from, to)

\* C2 witness: a pair with a fixed rate and two registrations of a passed parameter,
\* built together with a parameter that is not registered
C2_Witness ==
    /\ call.op = "build_rate_matrix"
    /\ <<0, 1>> \in DOMAIN rates
    /\ "gamma" \in DOMAIN dynamic_rate_specs
    /\ dynamic_rate_specs["gamma"] = <<(<<0, 1, 1>>), (<<0, 1, 1>>)>>
    /\ PassedValue(call.kwargs, "gamma") = 3
    /\ ret[1][0] = Scale * (rates[<<0, 1>>] + 6)

\* C7: a build leaves both tables as they are and returns the generator that the
\* current tables and its own keyword arguments determine, whatever was built before
C7_BuildIsStateless ==
    [][call'.op = "build_rate_matrix" =>
          /\ rates' = rates
          /\ dynamic_rate_specs' = dynamic_rate_specs
          /\ ret' = GeneratorOf(n_states', rates', dynamic_rate_specs', call'.kwargs)]_vars

\* C7 witness: a build that follows another build, on non-empty tables, non-zero result
C7_Witness ==
    /\ call.op = "build_rate_matrix"
    /\ call.after_build
    /\ rates # <<>>
    /\ dynamic_rate_specs # <<>>
    /\ call.kwargs # <<>>
    /\ ret # zeros(n_states)

\* an index outside [0, n_states)
OutOfRange(index) == index < 0 \/ index >= n_states

\* C8: set_rate raises on an index out of range and on from = to, and a raising call
\* leaves both tables as they were
C8_SetRateValidates ==
    [][call'.op = "set_rate" =>
          /\ (\/ OutOfRange(call'.from_state)
              \/ OutOfRange(call'.to_state)
              \/ call'.from_state = call'.to_state) => raised'
          /\ raised' => (rates' = rates /\ dynamic_rate_specs' = dynamic_rate_specs)]_vars

\* C8 witness: a set_rate call with an index one past the last state, on non-empty tables
C8_Witness ==
    /\ call.op = "set_rate"
    /\ call.to_state = n_states
    /\ raised
    /\ rates # <<>>
    /\ dynamic_rate_specs # <<>>

\* C9: construction fails when n_states < 2 and whenever a supplied label sequence
\* (the empty one included) has another length than n_states; then no model exists
C9_ConstructionFails ==
    (/\ call.op = "__init__"
     /\ \/ call.n < 2
        \/ (call.labels # NoneVal /\ Len(call.labels[1]) # call.n))
    => (raised /\ ~constructed)

\* C10: add_dynamic_rate rejects an index out of range and from = to, and a rejected
\* call adds no registration
C10_AddDynamicRateValidates ==
    [][call'.op = "add_dynamic_rate" =>
          /\ (\/ OutOfRange(call'.from_state)
              \/ OutOfRange(call'.to_state)
              \/ call'.from_state = call'.to_state) => raised'
          /\ raised' => (rates' = rates /\ dynamic_rate_specs' = dynamic_rate_specs)]_vars

\* the keyword arguments and the coefficients of the registrations are all >= 0
NonNegativeParameters(d, kwargs) ==
    /\ \A p \in DOMAIN kwargs : kwargs[p] >= 0
    /\ \A p \in DOMAIN d : \A j \in DOMAIN d[p] : d[p][j][3] >= 0

\* C11: the rate table never holds a negative rate, so a generator built with
\* non-negative parameter values and coefficients has off-diagonal entries >= 0 and
\* diagonal entries <= 0
C11_RatesNonNegative ==
    /\ \A k \in DOMAIN rates : rates[k] >= 0
    /\ (call.op = "build_rate_matrix" /\ NonNegativeParameters(dynamic_rate_specs, call.kwargs))
         => \A i, j \in 0 .. n_states - 1 :
                IF i = j THEN ret[i][j] <= 0 ELSE ret[i][j] >= 0

\* the pair a set_rate call names
CalledPair(c) == <<c.from_state, c.to_state>>

\* C12: a set_rate call that does not raise leaves its rate, and nothing added to it,
\* under its pair and every other pair as it was; a build puts the stored rate, once,
\* into W[to, from]
C12_LastWriteWins ==
    [][/\ (call'.op = "set_rate" /\ ~raised') =>
              /\ DOMAIN rates' = DOMAIN rates \cup {CalledPair(call')}
              /\ rates'[CalledPair(call')] = call'.rate
              /\ \A k \in DOMAIN rates \ {CalledPair(call')} : rates'[k] = rates[k]
       /\ (call'.op = "build_rate_matrix") =>
              \A k \in DOMAIN rates' :
                  ret'[k[2]][k[1]]
                    = Scale * (rates'[k]
                                + DynamicContribution(dynamic_rate_specs', call'.kwargs,
                                                      DOMAIN dynamic_rate_specs', k[1], k[2]))
      ]_vars

\* C12 witness: a set_rate call that replaced another rate of its pair, with the other
\* pair and a registration in the tables
C12_Witness ==
    /\ call.op = "set_rate"
    /\ ~raised
    /\ call.replaced # NoneVal
    /\ call.replaced[1] # call.rate
    /\ rates[CalledPair(call)] = call.rate
    /\ DOMAIN rates = {<<0, 1>>, <<1, 0>>}
    /\ dynamic_rate_specs # <<>>

\* an entry set_rate refuses
InvalidEntry(k) == OutOfRange(k[1]) \/ OutOfRange(k[2]) \/ k[1] = k[2]

\* the number of entries of a mapping that stand before its first invalid entry
ValidPrefix(m) ==
    IF \E i \in DOMAIN m : InvalidEntry(m[i])
    THEN (CHOOSE i \in DOMAIN m :
              InvalidEntry(m[i]) /\ \A j \in 1 .. i - 1 : ~InvalidEntry(m[j])) - 1
    ELSE Len(m)

\* C13: set_rates raises exactly when the mapping has an invalid entry; the entries
\* before the first invalid one are stored, that entry and the later ones are not
C13_SetRatesStopsAtFirstInvalid ==
    [][call'.op = "set_rates" =>
          /\ raised' = (ValidPrefix(call'.mapping) < Len(call'.mapping))
          /\ DOMAIN rates'
               = DOMAIN rates \cup {call'.mapping[i] : i \in 1 .. ValidPrefix(call'.mapping)}
          /\ \A i \in 1 .. ValidPrefix(call'.mapping) : rates'[call'.mapping[i]] = MapRate(i)
          /\ \A k \in DOMAIN rates :
                 (\A i \in 1 .. ValidPrefix(call'.mapping) : call'.mapping[i] # k)
                     => rates'[k] = rates[k]
          /\ dynamic_rate_specs' = dynamic_rate_specs]_vars

\* C13 witness: a mapping whose first entry is valid and whose second is not: the call
\* raised, the first entry is stored
C13_Witness ==
    /\ call.op = "set_rates"
    /\ raised
    /\ Len(call.mapping) = 2
    /\ call.mapping[1] = <<1, 0>>
    /\ InvalidEntry(call.mapping[2])
    /\ rates = (<<1, 0>> :> MapRate(1))

\* C14: the tables only ever hold indices in [0, n_states), whatever calls succeeded
\* or failed, and a build returns an n_states x n_states matrix without raising
C14_BuildNeverRaises ==
    /\ \A k \in DOMAIN rates : ~OutOfRange(k[1]) /\ ~OutOfRange(k[2])
    /\ \A p \in DOMAIN dynamic_rate_specs : \A j \in DOMAIN dynamic_rate_specs[p] :
          ~OutOfRange(dynamic_rate_specs[p][j][1]) /\ ~OutOfRange(dynamic_rate_specs[p][j][2])
    /\ call.op = "build_rate_matrix" =>
          /\ ~raised
          /\ DOMAIN ret = 0 .. n_states - 1
          /\ \A i \in 0 .. n_states - 1 : DOMAIN ret[i] = 0 .. n_states - 1

\* C14 witness: a build on tables that hold a negative rate and a self registration,
\* with a negative parameter value and a parameter that is not registered
C14_Witness ==
    /\ call.op = "build_rate_matrix"
    /\ ~raised
    /\ \E k \in DOMAIN rates : rates[k] < 0
    /\ \E p \in DOMAIN dynamic_rate_specs : \E j \in DOMAIN dynamic_rate_specs[p] :
          dynamic_rate_specs[p][j][1] = dynamic_rate_specs[p][j][2]
    /\ \E p \in DOMAIN call.kwargs : p \notin DOMAIN dynamic_rate_specs
    /\ \E p \in DOMAIN call.kwargs : call.kwargs[p] < 0
    /\ ret # zeros(n_states)

----------------------------------------------------------------------------
(* Properties of the solver                                                *)

\* every column of W sums to zero
ColumnsSumToZero(W, n) == \A i \in 0 .. n - 1 : ColSum(W, n, i) = 0

\* the entries of a rational vector sum to 1
SumsToOne(P, n) == P.den # 0 /\ SumTo(P.num, n) = P.den

\* C3: for a generator whose columns sum to zero and a P0 that sums to 1, every row
\* solve_expm returns sums to 1
C3_ExpmConservesPopulation ==
    (/\ call.op = "solve_expm"
     /\ ColumnsSumToZero(call.W, n_states)
     /\ SumsToOne(call.P0, n_states))
    => \A i \in DOMAIN ret : SumsToOne(ret[i], n_states)

\* C3 witness: a row at a time t > 0 that differs from P0, for a generator whose rows
\* do not sum to zero
C3_Witness ==
    /\ call.op = "solve_expm"
    /\ SumsToOne(call.P0, n_states)
    /\ \E i \in 0 .. n_states - 1 :
          SumTo([j \in 0 .. n_states - 1 |-> call.W[i][j]], n_states) # 0
    /\ \E i \in DOMAIN ret : call.t_eval[i] > 0 /\ ret[i] # call.P0

\* C4: the row solve_expm returns for a time point t = 0 is P0
C4_ExpmAtZeroIsInitial ==
    call.op = "solve_expm" =>
        \A i \in DOMAIN ret : call.t_eval[i] = 0 => ret[i] = call.P0

\* C4 witness: t = 0 asked for after a later time, for a non-zero generator and a P0
\* that does not sum to 1
C4_Witness ==
    /\ call.op = "solve_expm"
    /\ call.W # zeros(n_states)
    /\ ~SumsToOne(call.P0, n_states)
    /\ Len(call.t_eval) = 2
    /\ call.t_eval[1] > 0
    /\ call.t_eval[2] = 0
    /\ ret[1] # ret[2]

\* C5: the steady state of a built generator satisfies W @ P_ss = 0, sums to 1 and
\* has no negative entry
C5_SteadyStateIsNullVector ==
    call.op = "solve_steady_state" =>
        /\ SumsToOne(ret, n_states)
        /\ \A i \in 0 .. n_states - 1 : ret.num[i] >= 0
        /\ matvec(call.W, ret.num, n_states) = zeros(n_states)[0]

\* C6: for two states with positive rates k_AB (0 -> 1) and k_BA (1 -> 0) the steady
\* state is P_A = k_BA / (k_AB + k_BA), P_B = k_AB / (k_AB + k_BA)
C6_TwoStateSteadyState ==
    (/\ call.op = "solve_steady_state"
     /\ n_states = 2
     /\ DOMAIN rates = {<<0, 1>>, <<1, 0>>}
     /\ rates[<<0, 1>>] > 0
     /\ rates[<<1, 0>>] > 0)
    => /\ ret.den # 0
       /\ ret.num[0] * (rates[<<0, 1>>] + rates[<<1, 0>>]) = rates[<<1, 0>>] * ret.den
       /\ ret.num[1] * (rates[<<0, 1>>] + rates[<<1, 0>>]) = rates[<<0, 1>>] * ret.den

\* C6 witness: k_AB = 10, k_BA = 5 gives (1/3, 2/3), from an eigenvector of negative sign
C6_Witness ==
    /\ call.op = "solve_steady_state"
    /\ n_states = 2
    /\ DOMAIN rates = {<<0, 1>>, <<1, 0>>}
    /\ rates[<<0, 1>>] = 10
    /\ rates[<<1, 0>>] = 5
    /\ call.factor < 0
    /\ ret.den = 3
    /\ ret.num[0] = 1
    /\ ret.num[1] = 2

\* C16: solve_expm returns one row per time point, each of n_states entries; row i is
\* expm(W * t_eval[i]) @ P0 whatever the other time points are, so equal time points
\* give equal rows
C16_ExpmRowsInOrder ==
    call.op = "solve_expm" =>
        /\ Len(ret) = Len(call.t_eval)
        /\ \A i \in DOMAIN ret :
              /\ DOMAIN ret[i].num = 0 .. n_states - 1
              /\ ret[i] = expm_row(call.W, call.P0, call.t_eval[i], n_states)
        /\ \A i, j \in DOMAIN ret : call.t_eval[i] = call.t_eval[j] => ret[i] = ret[j]

\* C16 witness: two time points in descending order, both > 0, with different rows
C16_Witness ==
    /\ call.op = "solve_expm"
    /\ Len(call.t_eval) = 2
    /\ call.t_eval[1] > call.t_eval[2]
    /\ call.t_eval[2] > 0
    /\ ret[1] # ret[2]
    /\ ret[2] # call.P0

----------------------------------------------------------------------------
(* Properties of the initial states and observables                        *)

\* the value a population map gives for index k, 0 when it gives none
MapValue(populations, k) ==
    IF \E i \in DOMAIN populations : populations[i][1] = k
    THEN populations[CHOOSE i \in DOMAIN populations : populations[i][1] = k][2]
    ELSE 0

\* the sum of the values of a population map
MapTotal(populations) ==
    SumTo([j \in 0 .. Len(populations) - 1 |-> populations[j + 1][2]], Len(populations))

\* C15: get_mixed_initial_state raises and returns nothing when an index of the map is
\* out of range; otherwise it returns n_states entries, the given value (in units of
\* 1 / PopDen) at each mapped index and 0 elsewhere, summing to the sum of the values
C15_MixedInitialState ==
    call.op = "get_mixed_initial_state" =>
        IF \E i \in DOMAIN call.populations : OutOfRange(call.populations[i][1])
        THEN raised /\ ret = NoneVal
        ELSE /\ ~raised
             /\ ret.den > 0
             /\ DOMAIN ret.num = 0 .. n_states - 1
             /\ \A k \in 0 .. n_states - 1 :
                   ret.num[k] * PopDen = MapValue(call.populations, k) * ret.den
             /\ SumTo(ret.num, n_states) * PopDen = MapTotal(call.populations) * ret.den

\* C15 witness: two values that do not sum to 1, given for two of three states
C15_Witness ==
    /\ call.op = "get_mixed_initial_state"
    /\ ~raised
    /\ n_states = 3
    /\ Len(call.populations) = 2
    /\ MapTotal(call.populations) # PopDen
    /\ SumTo(ret.num, n_states) # ret.den
    /\ \E k \in 0 .. n_states - 1 : ret.num[k] = 0

\* populations[r, index] as numpy reads it
PopulationAt(row, index) == IF index < 0 THEN row[index + n_states] ELSE row[index]

\* C17: the array compute_photon_emission returns has one entry per time row, the sum
\* over i of populations[r, indices[i]] * weights[i]
C17_PhotonEmission ==
    (call.op = "compute_photon_emission" /\ ~raised) =>
        /\ DOMAIN ret = DOMAIN call.populations
        /\ \A r \in DOMAIN ret :
              ret[r] = SumTo([i \in 0 .. Len(call.excited_state_indices) - 1 |->
                                 PopulationAt(call.populations[r],
                                              call.excited_state_indices[i + 1])
                                   * call.radiative_rates[i + 1]],
                             Len(call.excited_state_indices))

\* C17 witness: two different rows, two different indices with different weights
C17_Witness ==
    /\ call.op = "compute_photon_emission"
    /\ ~raised
    /\ Len(call.populations) = 2
    /\ call.populations[1] # call.populations[2]
    /\ Len(call.excited_state_indices) = 2
    /\ call.excited_state_indices[1] # call.excited_state_indices[2]
    /\ call.radiative_rates[1] # call.radiative_rates[2]
    /\ ret[1] # ret[2]

\* an index numpy refuses for a column of populations
OutsideColumns(index) == index < -n_states \/ index >= n_states

\* C18 as stated: compute_photon_emission raises, with nothing computed, when the
\* lengths of the weights and the indices differ, and returns a result whenever they
\* are equal
C18_ReturnsWheneverLengthsEqual ==
    call.op = "compute_photon_emission" =>
        IF Len(call.radiative_rates) # Len(call.excited_state_indices)
        THEN raised /\ call.computed = NoneVal /\ ret = NoneVal
        ELSE ~raised /\ ret # NoneVal

\* C18 amended: compute_photon_emission raises ValueError, with nothing computed, when
\* the lengths differ; with equal lengths it returns a result when every index lies
\* within the columns of populations, and raises IndexError when one does not
C18_LengthCheck ==
    call.op = "compute_photon_emission" =>
        IF Len(call.radiative_rates) # Len(call.excited_state_indices)
        THEN raised /\ call.error = "ValueError" /\ call.computed = NoneVal /\ ret = NoneVal
        ELSE IF \E i \in DOMAIN call.excited_state_indices :
                    OutsideColumns(call.excited_state_indices[i])
        THEN raised /\ call.error = "IndexError" /\ ret = NoneVal
        ELSE ~raised /\ call.error = "none" /\ DOMAIN ret = DOMAIN call.populations

\* C18 witness: more weights than indices, on a populations array with rows
C18_Witness ==
    /\ call.op = "compute_photon_emission"
    /\ Len(call.radiative_rates) > Len(call.excited_state_indices)
    /\ Len(call.excited_state_indices) > 0
    /\ Len(call.populations) > 0
    /\ raised
    /\ call.error = "ValueError"

\* C19: when the integrator reports failure solve_ivp raises an error that carries
\* the integrator's message and returns nothing; when it reports success solve_ivp
\* returns y transposed and does not raise
C19_SolveIvpFailure ==
    call.op = "solve_ivp" =>
        IF ~call.solution.success
        THEN /\ raised
             /\ ret = NoneVal
             /\ call.error # NoneVal
             /\ call.error[1][2] = call.solution.message
        ELSE /\ ~raised
             /\ call.error = NoneVal
             /\ Len(ret) = Len(call.solution.y[0])
             /\ \A j \in DOMAIN ret : \A i \in 0 .. n_states - 1 :
                   ret[j][i] = call.solution.y[i][j]

\* C19 witness: a failure reported together with a partly filled y
C19_Witness ==
    /\ call.op = "solve_ivp"
    /\ ~call.solution.success
    /\ Len(call.solution.y[0]) = 2
    /\ raised
    /\ call.error = Some(<<"ODE solver failed: ", "step size too small">>)

----------------------------------------------------------------------------
(* Properties of compute_contrast                                          *)

\* C20: whatever the method, a compute_contrast call whose reference signal is exactly
\* 0 does not raise and returns exactly 0
C20_ZeroGuard ==
    (/\ call.op = "compute_contrast"
     /\ call.reference = Some(Rat(0, 1)))
    => (~raised /\ ret = Rat(0, 1))

\* C20 witness: the steady-state method with excitation and microwave on, for a model
\* whose three radiative rates are 0: the reference signal is 0 and 0 is returned
C20_Witness ==
    /\ call.op = "compute_contrast"
    /\ call.method = "steady_state"
    /\ call.gamma > 0
    /\ call.kmw_minus > 0
    /\ attributes.k41 = 0 /\ attributes.k52 = 0 /\ attributes.k63 = 0
    /\ call.reference = Some(Rat(0, 1))
    /\ ~raised
    /\ ret = Rat(0, 1)

\* the generator of the model's tables for an excitation rate and two microwave rates
DrivenGenerator(gamma, kmw_minus, kmw_plus) ==
    GeneratorOf(SevenStates, rates, dynamic_rate_specs,
                [p \in {"gamma", "kmw_minus", "kmw_plus"} |->
                    IF p = "gamma" THEN gamma ELSE IF p = "kmw_minus" THEN kmw_minus
                    ELSE kmw_plus])

\* the photoluminescence intensity of a population: the three excited-state
\* populations, each weighted by its radiative rate
Intensity(P) ==
    Rat(P.num[ES_0] * attributes.k41 + P.num[ES_MINUS] * attributes.k52
          + P.num[ES_PLUS] * attributes.k63, P.den)

RECURSIVE IntensityIntegral(_, _, _)
\* the trapezoid integral of the intensity over the first i steps of a grid of step h
IntensityIntegral(pop, h, i) ==
    IF i = 0 THEN Rat(0, 1)
    ELSE RatAdd(IntensityIntegral(pop, h, i - 1),
                RatDiv(RatTimes(RatAdd(Intensity(pop[i]), Intensity(pop[i + 1])), h),
                       Rat(2, 1)))

\* the intensity I a method compares: of the steady state, of the population at
\* t_integration, or integrated over [0, t_integration]
MethodIntensity(method, pop, t_integration) ==
    IF method = "time_integrated"
    THEN IntensityIntegral(pop, t_integration \div (Len(pop) - 1), Len(pop) - 1)
    ELSE Intensity(pop[Len(pop)])

\* (I_noMW - I_MW) / I_noMW, and 0 when I_noMW is 0
RelativeChange(I_noMW, I_MW) ==
    IF I_noMW = Rat(0, 1) THEN Rat(0, 1) ELSE RatDiv(RatSub(I_noMW, I_MW), I_noMW)

\* C21: for every method, compute_contrast returns (I_noMW - I_MW) / I_noMW (0 when
\* I_noMW is 0), I being the photoluminescence intensity weighted by k41, k52, k63, with
\* the reference generator built at the same gamma and both microwave rates 0
C21_ContrastIsRelativeIntensityChange ==
    (call.op = "compute_contrast" /\ ~raised) =>
        /\ call.W_nomw = DrivenGenerator(call.gamma, 0, 0)
        /\ call.W_mw = DrivenGenerator(call.gamma, call.kmw_minus, call.kmw_plus)
        /\ ret = RelativeChange(
                     MethodIntensity(call.method, call.pop_nomw, call.t_integration),
                     MethodIntensity(call.method, call.pop_mw, call.t_integration))

\* C22: with P0 = None the transient and the time-integrated method start both
\* evolutions from the steady state without microwave: a population that sums to 1 and
\* that the reference generator leaves where it is
C22_DefaultInitialIsSteadyState ==
    (/\ call.op = "compute_contrast"
     /\ ~raised
     /\ call.P0 = NoneVal
     /\ call.method \in {"transient", "time_integrated"})
    => /\ call.initial # NoneVal
       /\ SumsToOne(call.initial[1], SevenStates)
       /\ matvec(call.W_nomw, call.initial[1].num, SevenStates) = zeros_vector(SevenStates)
       /\ call.pop_nomw[1] = call.initial[1]
       /\ call.pop_mw[1] = call.initial[1]

\* C23: compute_contrast raises ValueError on a model that is not a SevenLevelModel,
\* whatever the method name is, and on an unknown method name; a call that raises has
\* built no generator and made no solver call; every other call returns
C23_ContrastRejects ==
    call.op = "compute_contrast" =>
        /\ attributes.class # "SevenLevelModel" =>
              /\ raised
              /\ call.error # NoneVal
              /\ call.error[1].type = "ValueError"
              /\ call.error[1].message = <<"compute_contrast requires SevenLevelModel">>
        /\ (/\ attributes.class = "SevenLevelModel"
            /\ call.method \notin {"steady_state", "transient", "time_integrated"}) =>
              /\ raised
              /\ call.error # NoneVal
              /\ call.error[1].type = "ValueError"
              /\ call.error[1].message = <<"Unknown method: ", call.method>>
        /\ raised =>
              /\ ret = NoneVal
              /\ call.builds = 0
              /\ call.solves = 0
              /\ call.W_nomw = NoneVal /\ call.W_mw = NoneVal
              /\ call.pop_nomw = NoneVal /\ call.pop_mw = NoneVal
        /\ (/\ attributes.class = "SevenLevelModel"
            /\ call.method \in {"steady_state", "transient", "time_integrated"}) =>
              ~raised /\ call.error = NoneVal

\* C23 witness: an unknown method name on a model that is not a SevenLevelModel: the
\* error is the one about the model
C23_Witness ==
    /\ call.op = "compute_contrast"
    /\ attributes.class = "RateModel"
    /\ call.method = "other"
    /\ raised
    /\ call.error[1].message = <<"compute_contrast requires SevenLevelModel">>
    /\ call.builds = 0

\* C28: a compute_contrast call with kmw_minus = kmw_plus = 0 builds the same generator
\* twice, reads the same signal from both runs and returns exactly 0
C28_NoMicrowaveNoContrast ==
    (/\ call.op = "compute_contrast"
     /\ ~raised
     /\ call.kmw_minus = 0
     /\ call.kmw_plus = 0)
    => /\ call.W_nomw = call.W_mw
       /\ call.reference = call.perturbed
       /\ ret = Rat(0, 1)

\* C28 witness: no microwave, excitation on, unequal radiative rates, a start from an
\* excited state and a signal that is not 0
C28_Witness ==
    /\ call.op = "compute_contrast"
    /\ ~raised
    /\ call.method = "time_integrated"
    /\ call.kmw_minus = 0
    /\ call.kmw_plus = 0
    /\ call.gamma > 0
    /\ attributes.k41 # attributes.k52
    /\ call.P0 = Some(indicator(ES_0, SevenStates))
    /\ call.t_integration > 0
    /\ call.reference[1].den # 0
    /\ call.reference[1].num # 0
    /\ ret = Rat(0, 1)

\* the three ground states
GroundStates == {GS_0, GS_MINUS, GS_PLUS}

\* C24: for a SevenLevelModel built with gamma = kmw_minus = kmw_plus = 0 the columns
\* of the three ground states are entirely zero, and the evolution from a pure ground
\* state leaves that state at population 1 and every other state at 0, at every time.
C24_GroundStatesKeepPopulation ==
    (/\ call.op = "run"
     /\ ~raised
     /\ attributes.class = "SevenLevelModel"
     /\ call.gamma = 0
     /\ \E g \in GroundStates : ret.P0 = indicator(g, SevenStates))
        => /\ \A g \in GroundStates : \A j \in 0 .. SevenStates - 1 : call.W[j][g] = 0
           /\ \A i \in DOMAIN ret.populations :
                  \A j \in 0 .. SevenStates - 1 :
                      /\ ret.populations[i].den # 0
                      /\ ret.populations[i].num[j]
                            = ret.populations[i].den * ret.P0.num[j]

C24_Witness ==
    /\ call.op = "run"
    /\ ~raised
    /\ attributes.class = "SevenLevelModel"
    /\ attributes.k41 > 0
    /\ call.gamma = 0
    /\ call.t_max > 0
    /\ call.initial_state = Typed("str", STR_GS_MINUS)
    /\ ret.populations[GridPoints] = indicator(GS_MINUS, SevenStates)

\* the ground state a string names, whatever its case: -1 when it names none
NamedGroundState(str) ==
    IF lower(str) \in {STR_GS0, STR_GS_0, STR_100} THEN GS_0
    ELSE IF lower(str) \in {STR_GS_MINUS, STR_GS_DASH, STR_010} THEN GS_MINUS
    ELSE IF lower(str) \in {STR_GS_PLUS, STR_GS_CROSS, STR_001} THEN GS_PLUS
    ELSE -1

\* the call raised a ValueError
RaisedValueError == raised /\ call.error # NoneVal /\ call.error[1].type = "ValueError"

\* the call returned the indicator vector of the index
ReturnedIndicator(index) == ~raised /\ ret = indicator(index, n_states)

\* what the mapping of _parse_initial_state promises for a value (a bool is an int)
ParsedAsPromised(x) ==
    CASE x.type = "ndarray" -> ~raised /\ ret = x.value
      [] x.type \in {"int", "bool"} ->
            IF 0 <= int_value(x) /\ int_value(x) < n_states
            THEN ReturnedIndicator(int_value(x))
            ELSE RaisedValueError
      [] x.type = "str" ->
            IF attributes.class = "SevenLevelModel" /\ NamedGroundState(x.value) # -1
            THEN ReturnedIndicator(NamedGroundState(x.value))
            ELSE RaisedValueError
      [] OTHER -> RaisedValueError

\* C27: _parse_initial_state maps 'gs0'/'gs_0'/'100' to state 0, 'gs_minus'/'gs-'/'010'
\* to state 1 and 'gs_plus'/'gs+'/'001' to state 2, whatever the case; an int gives
\* the indicator vector of that index and raises when out of range; an array is
\* returned as given; any other string, a string with a model that is not a
\* SevenLevelModel, and any other type raise ValueError.
C27_ParseInitialState ==
    call.op = "_parse_initial_state" => ParsedAsPromised(call.initial_state)

\* the name in lower case with '-', '@' and ' ' replaced by '_'
NormalisedName(name) ==
    [i \in DOMAIN name |->
        IF lower_char(name[i]) \in {"-", "@", " "} THEN "_" ELSE lower_char(name[i])]

\* the nine fixed rates a preset or a model's attributes name, by (from_state, to_state)
NineRates(config) ==
    (<<ES_0, GS_0>> :> config.k41) @@ (<<ES_MINUS, GS_MINUS>> :> config.k52)
      @@ (<<ES_PLUS, GS_PLUS>> :> config.k63) @@ (<<ES_0, SINGLET>> :> config.k47)
      @@ (<<ES_MINUS, SINGLET>> :> config.k57) @@ (<<ES_PLUS, SINGLET>> :> config.k67)
      @@ (<<SINGLET, GS_0>> :> config.k71) @@ (<<SINGLET, GS_MINUS>> :> config.k72)
      @@ (<<SINGLET, GS_PLUS>> :> config.k73)

\* C25: get_preset(name) lower-cases the name and replaces '-', '@' and ' ' by '_'; for
\* a key of PRESETS it returns a new SevenLevelModel with 7 states whose nine fixed
\* rates are the preset's values, otherwise it raises ValueError; PRESETS is never
\* changed, and no two returned models share a rate table.
C25_GetPreset ==
    /\ PRESETS = PresetTable
    /\ \A i, j \in DOMAIN models : i # j => models[i].rates # models[j].rates
    /\ call.op = "get_preset" =>
          IF NormalisedName(call.name) \in DOMAIN PresetTable
          THEN /\ ~raised
               /\ ret = Len(models)
               /\ models[ret].n_states = SevenStates
               /\ models[ret].attributes.class = "SevenLevelModel"
               /\ dicts[models[ret].rates]
                     = NineRates(PresetTable[NormalisedName(call.name)])
          ELSE RaisedValueError /\ ret = NoneVal

C25_Witness ==
    /\ call.op = "get_preset"
    /\ call.name = <<"N", "V", "-", "B", "u", "l", "k">>
    /\ ~raised
    /\ ret = 2
    /\ dicts[models[1].rates][<<ES_0, GS_0>>] = 2000
    /\ dicts[models[2].rates][<<ES_0, GS_0>>] = PresetTable[KEY_NV_BULK].k41

\* C29: in every state a SevenLevelModel reaches from its constructor by setter calls,
\* the attributes k41, k52, k63 equal the rates stored for 3->0, 4->1, 5->2, and k47,
\* k57, k67, k71, k72, k73 equal the stored rates into and out of the singlet; the
\* constructor gives k52 and k63 the value of k41 when they are left out.
C29_AttributesAreStoredRates ==
    (constructed /\ attributes.class = "SevenLevelModel")
        => /\ \A pair \in DOMAIN NineRates(attributes) :
                  pair \in DOMAIN rates /\ rates[pair] = NineRates(attributes)[pair]
           /\ (call.op = "SevenLevelModel.__init__" /\ call.k52 = NoneVal)
                 => attributes.k52 = call.k41
           /\ (call.op = "SevenLevelModel.__init__" /\ call.k63 = NoneVal)
                 => attributes.k63 = call.k41

\* C26: after the setup, under any interleaving of build_rate_matrix and solver calls
\* from several threads, every call returns what it returns when it runs alone, and
\* the rate tables of the model stay as the setup left them.
C26_ConcurrentCallsAsAlone ==
    /\ rates = store_rates(<<>>, setup_fixed_rates(attributes))
    /\ dynamic_rate_specs = setup_dynamic_rates
    /\ \A t \in DOMAIN threads :
          /\ threads[t].pc \in {"built", "solved"}
                => threads[t].result
                     = build_rate_matrix(n_states, rates, dynamic_rate_specs,
                                         threads[t].kwargs)
          /\ threads[t].pc = "solved"
                => threads[t].populations
                     = solve_expm(build_rate_matrix(n_states, rates, dynamic_rate_specs,
                                                    threads[t].kwargs),
                                  threads[t].P0, ThreadTimes, n_states)

C26_Witness ==
    /\ threads[1].pc = "solved"
    /\ threads[2].pc = "dynamic"
    /\ threads[1].kwargs # threads[2].kwargs
    /\ threads[1].result # zeros(n_states)

\* C30: the post-processing of solve_steady_state (divide by the sum, clip negatives
\* to 0, divide by the sum again) gives the same result for v and for c * v, for every
\* v with non-zero sum and every c # 0, negative included; the result has no negative
\* entry and sums to 1.
C30_PostProcessingIgnoresScale ==
    (/\ call.op = "solve_steady_state"
     /\ "eigenvector" \in DOMAIN call
     /\ SumTo(call.eigenvector, n_states) # 0)
        => /\ ret[1] = ret[2]
           /\ ret[1].den > 0
           /\ \A i \in 0 .. n_states - 1 : ret[1].num[i] >= 0
           /\ SumTo(ret[1].num, n_states) = ret[1].den

C30_Witness ==
    /\ call.op = "solve_steady_state"
    /\ "eigenvector" \in DOMAIN call
    /\ n_states = 3
    /\ call.factor < -1
    /\ SumTo(call.eigenvector, n_states) < 0
    /\ call.eigenvector[0] > 0
    /\ call.eigenvector[1] < 0
    /\ ret[2].num[0] = 0
    /\ ret[2].num[1] > 0
    /\ ret[2].num[2] > 0

====
